---- MODULE Spec2Model ----
(***************************************************************************)
(* A model of the markdown-editor front end: the lexer                     *)
(* (packages/lexer/src/lexer.ts), the recursive-descent parser             *)
(* (packages/parser/src/parser.ts), the node factory and the structural    *)
(* edits of the AST package.                                               *)
(*                                                                         *)
(* Strings are sequences of one-character strings, so that slicing,        *)
(* repetition and concatenation are computed and not assumed.              *)
(***************************************************************************)
EXTENDS Integers, Sequences, FiniteSets, TLC

(***************************************************************************)
(* Bounds of the model.                                                    *)
(***************************************************************************)
\* longest raw input drawn over the whole alphabet
MaxLen == 3
\* longest run of one repeated character (runs of 7 '#' split at 6)
MaxRun == 7
\* most tokens before the end-of-stream token, drawn over every token kind
MaxAnyTokens == 2
\* most tokens before the end-of-stream token, drawn over the kinds the
\* inline rules tell apart
MaxInlineTokens == 4
\* most tokens before the end-of-stream token, drawn over the kinds the block
\* and list rules tell apart
MaxBlockTokens == 4
\* most tokens between the brackets of a link or image shape
MaxFill == 1
\* longest raw input of the lexer-to-parser pipeline drawn over PipeAlphabet
MaxPipeLen == 3
\* most tokens of a sequence of list items with checkbox literals
MaxTaskTokens == 2
\* most tokens of an input whose tree is traversed, cloned or transformed
MaxAstTokens == 3
\* most calls made on a SyncScroller
MaxEvents == 4
\* most calls of tokenize() on one lexer
MaxCalls == 2
\* most node objects and most insertNode calls of a node graph that is
\* traversed step by step
MaxGraphNodes == 3
MaxGraphEdits == 3
\* most node objects built in the structural-edit model
MaxNodes == 3
\* longest children array in the structural-edit model
MaxChildren == 2

(***************************************************************************)
(* Characters.  One representative per character class of scanToken, plus  *)
(* CR (removed by normalizeNewlines) and form feed (whitespace for         *)
(* isWhitespace, without a scan rule of its own).                          *)
(***************************************************************************)
\* the backtick character (a string literal cannot hold it)
Backtick == "BT"

Alphabet ==
  { "#", "*", Backtick, "[", "]", "(", ")", "!", ">", "-", ".",
    "\n", "\r", "\t", " ", "1", "a", "\f" }

\* every character an input of the model is written with
Characters == Alphabet \cup { "2", "b", "c", "j", "s", "x" }

Max(a, b) == IF a >= b THEN a ELSE b

SeqsUpTo(S, n) == UNION { [1..k -> S] : k \in 0..n }

\* String.prototype.repeat
Repeat(c, n) == [i \in 1..n |-> c]

\* String.prototype.slice(start, end) with 0-based, end-exclusive indices
Slice(s, start, end) == SubSeq(s, start + 1, end)

(***************************************************************************)
(* shared string utilities                                                 *)
(***************************************************************************)
\* /^\s$/ restricted to the characters of the alphabet
isWhitespace(char) == char \in { " ", "\t", "\n", "\r", "\f" }

Digits == { "0", "1", "2", "3", "4", "5", "6", "7", "8", "9" }

isDigit(char) == char \in Digits

isNewline(char) == char = "\n" \/ char = "\r"

\* text.replace(/\r\n/g, '\n')
RECURSIVE replaceCRLF(_)
replaceCRLF(s) ==
  IF s = <<>> THEN <<>>
  ELSE IF Len(s) >= 2 /\ s[1] = "\r" /\ s[2] = "\n"
       THEN <<"\n">> \o replaceCRLF(SubSeq(s, 3, Len(s)))
       ELSE <<s[1]>> \o replaceCRLF(Tail(s))

\* .replace(/\r/g, '\n')
replaceCR(s) == [i \in 1..Len(s) |-> IF s[i] = "\r" THEN "\n" ELSE s[i]]

normalizeNewlines(text) == replaceCR(replaceCRLF(text))

(***************************************************************************)
(* State.                                                                  *)
(***************************************************************************)
VARIABLES
  raw,      \* the string handed to the MarkdownLexer constructor
  input,    \* MarkdownLexer.input
  offset,   \* MarkdownLexer.offset
  line,     \* MarkdownLexer.line
  column,   \* MarkdownLexer.column
  tokens,   \* the local array of tokenize()
  lexpc,    \* position of tokenize(): "scan" in the loop, "done" after return
  returned, \* the arrays the tokenize() calls on this lexer have returned
  scroller, \* a SyncScroller, its debounced function, and the calls made so far
  ptokens,  \* RecursiveDescentParser.tokens, the argument of parse()
  presult,  \* what parse() left: the node store, the document and the cursor
  ppc,      \* position of parse(): "ready" before the call, "done" after it
  nodes,    \* the node objects built by the factory, by identity (index)
  aroot,    \* the root of the tree handed to the traverser and the transformer
  aop       \* the last clone / traverse / transform call: its argument, the
            \* node store before it, what it returned, the callbacks it made

lexvars == << raw, input, offset, line, column, tokens, lexpc, returned >>

parservars == << ptokens, presult, ppc >>

astvars == << aroot, aop >>

scrollvars == << scroller >>

treevars == << nodes, aroot, aop >>

vars == << raw, input, offset, line, column, tokens, lexpc, returned, scroller,
           ptokens, presult, ppc, nodes, aroot, aop >>

\* no lexer, no parse call, no node: the parts a specification leaves alone
LexIdle ==
  /\ raw = <<>> /\ input = <<>> /\ offset = 0 /\ line = 1 /\ column = 1
  /\ tokens = <<>> /\ lexpc = "idle" /\ returned = <<>>

ParseIdle == ptokens = <<>> /\ presult = <<>> /\ ppc = "idle"

NoCall ==
  [ op |-> "none", node |-> 0, arg |-> <<>>, out |-> 0, before |-> <<>>,
    visits |-> <<>>, calls |-> <<>>, results |-> <<>>,
    stack |-> <<>>, visited |-> {} ]

\* no SyncScroller has been constructed
NoScroller ==
  [ enabled |-> FALSE, isScrolling |-> FALSE, scrollTimeout |-> 0, debounceTime |-> 0,
    lastArgs |-> <<>>, inDebounce |-> FALSE, timer |-> FALSE, log |-> <<>> ]

ScrollIdle == scroller = NoScroller

AstIdle == aroot = 0 /\ aop = NoCall

TreeIdle == nodes = <<>> /\ AstIdle

(***************************************************************************)
(* The lexer.  A cursor is the record [offset, line, column]; every scan   *)
(* rule maps the cursor before the call to [cur, tok]: the cursor after    *)
(* the call and the token it returns.                                      *)
(***************************************************************************)
Cursor(o, l, c) == [offset |-> o, line |-> l, column |-> c]

\* isAtEnd with the comparison off by one
isAtEnd_offByOne(inp, cur) == cur.offset >= Len(inp) - 1

isAtEnd(inp, cur) == cur.offset >= Len(inp)

peek(inp, cur) == IF isAtEnd(inp, cur) THEN "\\0" ELSE inp[cur.offset + 1]

advance(inp, cur) ==
  IF isAtEnd(inp, cur) THEN cur
  ELSE [cur EXCEPT !.offset = @ + 1, !.column = @ + 1]

\* createToken reporting the cursor after the literal was consumed
createToken_postCursor(cur, type, value) ==
  [ type   |-> type,
    value  |-> value,
    line   |-> cur.line,
    column |-> cur.column,
    offset |-> cur.offset,
    length |-> Len(value) ]

createToken(cur, type, value) ==
  [ type   |-> type,
    value  |-> value,
    line   |-> cur.line,
    column |-> Max(1, cur.column - Len(value)),
    offset |-> cur.offset - Len(value),
    length |-> Len(value) ]

\* while (peek() is in chars && count < limit) { advance(); count++ }
RECURSIVE advanceWhile(_, _, _, _)
advanceWhile(inp, cur, chars, limit) ==
  IF limit > 0 /\ peek(inp, cur) \in chars
  THEN advanceWhile(inp, advance(inp, cur), chars, limit - 1)
  ELSE cur

\* no limit on the run: the input is never longer than this
NoLimit(inp) == Len(inp) + 1

\* scanHash consuming the whole run and emitting at most six characters
scanHash_dropTail(inp, cur) ==
  LET c == advanceWhile(inp, cur, {"#"}, NoLimit(inp))
      count == c.offset - cur.offset
  IN  [cur |-> c, tok |-> createToken(c, "hash", Repeat("#", IF count > 6 THEN 6 ELSE count))]

scanHash(inp, cur) ==
  LET c == advanceWhile(inp, cur, {"#"}, 6)
      count == c.offset - cur.offset
  IN  [cur |-> c, tok |-> createToken(c, "hash", Repeat("#", count))]

scanAsterisk(inp, cur) ==
  LET c1 == advance(inp, cur)
  IN  IF peek(inp, c1) = "*"
      THEN LET c2 == advance(inp, c1)
           IN  [cur |-> c2, tok |-> createToken(c2, "bold", <<"*", "*">>)]
      ELSE [cur |-> c1, tok |-> createToken(c1, "asterisk", <<"*">>)]

scanBacktick(inp, cur) ==
  LET c == advanceWhile(inp, cur, {Backtick}, NoLimit(inp))
      count == c.offset - cur.offset
  IN  IF count = 3
      THEN [cur |-> c, tok |-> createToken(c, "code_block", Repeat(Backtick, count))]
      ELSE [cur |-> c, tok |-> createToken(c, "backtick", Repeat(Backtick, count))]

\* scanBracketOpen, scanBracketClose, scanParenOpen, scanParenClose,
\* scanExclamation, scanGreaterThan, scanDot, scanTab: advance once and
\* return a token of the given type holding the character
scanSingle(inp, cur, type, char) ==
  LET c == advance(inp, cur)
  IN  [cur |-> c, tok |-> createToken(c, type, <<char>>)]

scanMinus(inp, cur) ==
  LET c == advanceWhile(inp, cur, {"-"}, NoLimit(inp))
      count == c.offset - cur.offset
  IN  IF count >= 3
      THEN [cur |-> c, tok |-> createToken(c, "horizontal_rule", Repeat("-", count))]
      ELSE [cur |-> c, tok |-> createToken(c, "minus", Repeat("-", count))]

scanDigit(inp, cur) ==
  LET c == advanceWhile(inp, cur, Digits, NoLimit(inp))
  IN  [cur |-> c, tok |-> createToken(c, "digit", Slice(inp, cur.offset, c.offset))]

scanNewline(inp, cur) ==
  LET c1 == advance(inp, cur)
      c2 == [c1 EXCEPT !.line = @ + 1, !.column = 1]
  IN  [cur |-> c2, tok |-> createToken(c2, "newline", <<"\n">>)]

scanWhitespace(inp, cur) ==
  LET c == advanceWhile(inp, cur, {" "}, NoLimit(inp))
      count == c.offset - cur.offset
  IN  [cur |-> c, tok |-> createToken(c, "whitespace", Repeat(" ", count))]

isTextChar(char) ==
  ~ ( char = "#" \/ char = "*" \/ char = Backtick \/ char = "[" \/ char = "]"
      \/ char = "(" \/ char = ")" \/ char = "!" \/ char = ">" \/ char = "-"
      \/ char = "." \/ isNewline(char) \/ isWhitespace(char) )

scanText(inp, cur) ==
  LET c == advanceWhile(inp, cur, { ch \in Characters : isTextChar(ch) }, NoLimit(inp))
  IN  [cur |-> c, tok |-> createToken(c, "text", Slice(inp, cur.offset, c.offset))]

scanToken(inp, cur) ==
  LET char == peek(inp, cur)
  IN  CASE char = "#"  -> scanHash(inp, cur)
        [] char = "*"  -> scanAsterisk(inp, cur)
        [] char = Backtick  -> scanBacktick(inp, cur)
        [] char = "["  -> scanSingle(inp, cur, "bracket_open", "[")
        [] char = "]"  -> scanSingle(inp, cur, "bracket_close", "]")
        [] char = "("  -> scanSingle(inp, cur, "paren_open", "(")
        [] char = ")"  -> scanSingle(inp, cur, "paren_close", ")")
        [] char = "!"  -> scanSingle(inp, cur, "exclamation", "!")
        [] char = ">"  -> scanSingle(inp, cur, "greater_than", ">")
        [] char = "-"  -> scanMinus(inp, cur)
        [] char = "."  -> scanSingle(inp, cur, "dot", ".")
        [] char = "\n" -> scanNewline(inp, cur)
        [] char = "\t" -> scanSingle(inp, cur, "tab", "\t")
        [] char = " "  -> scanWhitespace(inp, cur)
        [] OTHER       -> IF isDigit(char) THEN scanDigit(inp, cur)
                          ELSE scanText(inp, cur)

(***************************************************************************)
(* tokenize(), one loop iteration per step.                                *)
(***************************************************************************)
\* the loop of tokenize() never pushes more tokens than this in the model:
\* an input of n characters needs at most n tokens and the end token, and a
\* loop that does not advance is cut after a few more
TokenCap(inp) == Len(inp) + 3

LexInputs ==
  SeqsUpTo(Alphabet, MaxLen)
    \cup { Repeat(c, n) \o t : c \in {"#", "*", Backtick, "-", " ", "1"},
                               n \in 1..MaxRun,
                               t \in SeqsUpTo({"a", "\n"}, 1) }

\* new MarkdownLexer(raw)
LexInit ==
  /\ raw \in LexInputs
  /\ input = normalizeNewlines(raw)
  /\ offset = 0
  /\ line = 1
  /\ column = 1
  /\ tokens = <<>>
  /\ lexpc = "scan"
  /\ returned = <<>>
  /\ ParseIdle
  /\ TreeIdle
  /\ ScrollIdle

\* one iteration of while (!isAtEnd()) { token = scanToken(); push }
TokenizeStep ==
  /\ lexpc = "scan"
  /\ ~ isAtEnd(input, Cursor(offset, line, column))
  /\ Len(tokens) < TokenCap(input)
  /\ LET r == scanToken(input, Cursor(offset, line, column))
     IN  /\ offset' = r.cur.offset
         /\ line' = r.cur.line
         /\ column' = r.cur.column
         /\ tokens' = Append(tokens, r.tok)
  /\ UNCHANGED << raw, input, lexpc, returned, parservars, treevars, scrollvars >>

\* tokens.push(createToken(EOF, '')); return tokens
TokenizeEnd ==
  /\ lexpc = "scan"
  /\ isAtEnd(input, Cursor(offset, line, column))
  /\ tokens' = Append(tokens, createToken(Cursor(offset, line, column), "eof", <<>>))
  /\ returned' = Append(returned, tokens')
  /\ lexpc' = "done"
  /\ UNCHANGED << raw, input, offset, line, column, parservars, treevars, scrollvars >>

LexNext == TokenizeStep \/ TokenizeEnd

SpecLex == LexInit /\ [][LexNext]_vars

\* tokenize() is called again on the same lexer: const tokens = []; the
\* fields offset, line and column are not written
TokenizeAgain ==
  /\ lexpc = "done"
  /\ Len(returned) < MaxCalls
  /\ tokens' = <<>>
  /\ lexpc' = "scan"
  /\ UNCHANGED << raw, input, offset, line, column, returned, parservars, treevars, scrollvars >>

RelexNext == TokenizeStep \/ TokenizeEnd \/ TokenizeAgain

\* one lexer, tokenize() called up to MaxCalls times
SpecRelex == LexInit /\ [][RelexNext]_vars

(***************************************************************************)
(* The node factory.  A node store is a sequence of node records; a node   *)
(* is its index in the store, so that two nodes with equal fields remain   *)
(* two nodes.  parent = 0 stands for an undefined parent, hasChildren =    *)
(* FALSE for an undefined children array.                                  *)
(***************************************************************************)
NoPosition == [line |-> 1, column |-> 1, offset |-> 0]

createBaseNode(type, position) ==
  [ type        |-> type,
    position    |-> position,
    parent      |-> 0,
    hasChildren |-> FALSE,
    children    |-> <<>>,
    value       |-> <<>>,
    level       |-> 0,
    ordered     |-> FALSE,
    checked     |-> "undefined",
    url         |-> <<>>,
    alt         |-> <<>>,
    hasLanguage |-> FALSE,
    language    |-> <<>> ]

\* children.forEach(child => { child.parent = parent })
setParentChild(heap, parent, children) ==
  [ i \in 1..Len(heap) |->
      IF \E k \in 1..Len(children) : children[k] = i
      THEN [heap[i] EXCEPT !.parent = parent]
      ELSE heap[i] ]

\* a container node is stored after its children were given it as parent;
\* the new node is the last one of the returned store
createContainer(heap, node, children) ==
  Append(setParentChild(heap, Len(heap) + 1, children),
         [node EXCEPT !.hasChildren = TRUE, !.children = children])

\* a container built without the setParentChild call
createContainer_noParent(heap, type, children, position) ==
  Append(heap, [createBaseNode(type, position) EXCEPT
                  !.hasChildren = TRUE, !.children = children])

createDocument(heap, children, position) ==
  createContainer(heap, createBaseNode("document", position), children)

createHeading(heap, level, children, position) ==
  createContainer(heap, [createBaseNode("heading", position) EXCEPT !.level = level],
                  children)

createParagraph(heap, children, position) ==
  createContainer(heap, createBaseNode("paragraph", position), children)

createCodeBlock(heap, value, hasLanguage, language, position) ==
  Append(heap, [createBaseNode("code_block", position) EXCEPT
                  !.value = value, !.hasLanguage = hasLanguage, !.language = language])

createQuote(heap, children, position) ==
  createContainer(heap, createBaseNode("quote", position), children)

createList(heap, ordered, children, position) ==
  createContainer(heap, [createBaseNode("list", position) EXCEPT !.ordered = ordered],
                  children)

createListItem(heap, children, position, checked) ==
  createContainer(heap, [createBaseNode("list_item", position) EXCEPT !.checked = checked],
                  children)

createHorizontalRule(heap, position) ==
  Append(heap, createBaseNode("horizontal_rule", position))

createText(heap, value, position) ==
  Append(heap, [createBaseNode("text", position) EXCEPT !.value = value])

\* createBold without the setParentChild call
createBold_noParent(heap, children, position) ==
  createContainer_noParent(heap, "bold", children, position)

createBold(heap, children, position) ==
  createContainer(heap, createBaseNode("bold", position), children)

createItalic(heap, children, position) ==
  createContainer(heap, createBaseNode("italic", position), children)

createCode(heap, value, position) ==
  Append(heap, [createBaseNode("code", position) EXCEPT !.value = value])

createLink(heap, url, children, position) ==
  createContainer(heap, [createBaseNode("link", position) EXCEPT !.url = url], children)

createImage(heap, url, alt, position) ==
  Append(heap, [createBaseNode("image", position) EXCEPT !.url = url, !.alt = alt])

createNewLine(heap, position) ==
  Append(heap, createBaseNode("newline", position))

(***************************************************************************)
(* String operations the parser applies to token literals.                 *)
(***************************************************************************)
\* String.prototype.includes
includes(s, sub) ==
  \E i \in 0..(Len(s) - Len(sub)) : SubSeq(s, i + 1, i + Len(sub)) = sub

\* String.prototype.startsWith
startsWith(s, prefix) ==
  Len(s) >= Len(prefix) /\ SubSeq(s, 1, Len(prefix)) = prefix

\* index (1-based) of the first occurrence of char at or after from, 0 if none
indexOfFrom(s, char, from) ==
  LET hits == { i \in from..Len(s) : s[i] = char }
  IN  IF hits = {} THEN 0 ELSE CHOOSE i \in hits : \A j \in hits : i <= j

\* String.prototype.split('\n')
RECURSIVE split(_)
split(s) ==
  LET i == indexOfFrom(s, "\n", 1)
  IN  IF i = 0 THEN << s >>
      ELSE << SubSeq(s, 1, i - 1) >> \o split(SubSeq(s, i + 1, Len(s)))

\* Array.prototype.join('\n')
RECURSIVE join(_)
join(lines) ==
  IF lines = <<>> THEN <<>>
  ELSE IF Len(lines) = 1 THEN lines[1]
  ELSE lines[1] \o <<"\n">> \o join(Tail(lines))

\* String.prototype.trim
RECURSIVE trim(_)
trim(s) ==
  IF s = <<>> THEN s
  ELSE IF isWhitespace(s[1]) THEN trim(Tail(s))
  ELSE IF isWhitespace(s[Len(s)]) THEN trim(SubSeq(s, 1, Len(s) - 1))
  ELSE s

\* value.match(/^\d+\./) !== null
matchOrderedMarker(value) ==
  \E n \in 1..Len(value) :
    /\ \A i \in 1..n : isDigit(value[i])
    /\ n < Len(value)
    /\ value[n + 1] = "."

\* value.match(/\[([^\]]*)\]\(([^)]*)\)/): the leftmost '[' whose first ']' is
\* followed by '(' and a later ')'; groups 1 and 2, both '' when nothing matches
matchBracketParen(value) ==
  LET ok(i) ==
        /\ value[i] = "["
        /\ LET j == indexOfFrom(value, "]", i + 1)
           IN  /\ j # 0
               /\ j < Len(value)
               /\ value[j + 1] = "("
               /\ indexOfFrom(value, ")", j + 2) # 0
      starts == { i \in 1..Len(value) : ok(i) }
  IN  IF starts = {} THEN [text |-> <<>>, url |-> <<>>]
      ELSE LET i == CHOOSE a \in starts : \A b \in starts : a <= b
               j == indexOfFrom(value, "]", i + 1)
               k == indexOfFrom(value, ")", j + 2)
           IN  [text |-> SubSeq(value, i + 1, j - 1), url |-> SubSeq(value, j + 2, k - 1)]

\* value.match(/!\[([^\]]*)\]\(([^)]*)\)/): the same pattern after a '!'
matchImage(value) ==
  LET ok(i) ==
        /\ value[i] = "!"
        /\ i < Len(value)
        /\ value[i + 1] = "["
        /\ LET j == indexOfFrom(value, "]", i + 2)
           IN  /\ j # 0
               /\ j < Len(value)
               /\ value[j + 1] = "("
               /\ indexOfFrom(value, ")", j + 2) # 0
      starts == { i \in 1..Len(value) : ok(i) }
  IN  IF starts = {} THEN [text |-> <<>>, url |-> <<>>]
      ELSE LET i == CHOOSE a \in starts : \A b \in starts : a <= b
               j == indexOfFrom(value, "]", i + 2)
               k == indexOfFrom(value, ")", j + 2)
           IN  [text |-> SubSeq(value, i + 2, j - 1), url |-> SubSeq(value, j + 2, k - 1)]

(***************************************************************************)
(* The parser.  Its state is the record [current, heap, error, raised,     *)
(* stuck]: the cursor, the node store, a ParseError in flight, whether a   *)
(* ParseError was ever raised, and whether a loop iteration ended without  *)
(* moving the cursor forward (the loop would then never end; the model     *)
(* stops there).  A rule maps the state before the call to [st, node], a   *)
(* loop to [st, nodes]; node = 0 stands for null.                          *)
(***************************************************************************)
ParserState(heap) ==
  [current |-> 0, heap |-> heap, error |-> FALSE, raised |-> FALSE, stuck |-> FALSE]

Halted(st) == st.error \/ st.stuck

Res(st, node) == [st |-> st, node |-> node]

ResList(st, ns) == [st |-> st, nodes |-> ns]

\* the state after one loop iteration that began in state before
iterated(before, after) ==
  IF ~Halted(after) /\ after.current <= before.current
  THEN [after EXCEPT !.stuck = TRUE]
  ELSE after

tokenPosition(tok) == [line |-> tok.line, column |-> tok.column, offset |-> tok.offset]

parserIsAtEnd(toks, st) == st.current >= Len(toks)

parserPeek(toks, st) == toks[st.current + 1]

previous(toks, st) == toks[st.current]

check(toks, st, type) ==
  IF parserIsAtEnd(toks, st) THEN FALSE ELSE parserPeek(toks, st).type = type

\* advance(); the token it returns is previous() in the state it leaves
parserAdvance(toks, st) ==
  IF ~parserIsAtEnd(toks, st) THEN [st EXCEPT !.current = @ + 1] ELSE st

\* consume(type); the token it returns is previous() in the state it leaves
consume(toks, st, type) ==
  IF check(toks, st, type) THEN parserAdvance(toks, st)
  ELSE [st EXCEPT !.error = TRUE, !.raised = TRUE]

isBlockEnd(toks, st) ==
  IF parserIsAtEnd(toks, st) THEN TRUE
  ELSE parserPeek(toks, st).type \in
         { "heading", "code_block", "quote", "list_item", "horizontal_rule", "newline" }

\* the state with node n added to the store by a factory call
withNode(st, heap) == Res([st EXCEPT !.heap = heap], Len(heap))

\* a loop's state [st, nodes] after the iteration that began in acc.st and
\* got r: if (r) nodes.push(r)
iteration(acc, r) ==
  [acc EXCEPT !.st = iterated(acc.st, r.st),
              !.nodes = IF r.node # 0 THEN Append(@, r.node) ELSE @]

RECURSIVE parseInline(_, _)

\* while (!isAtEnd() && !isBlockEnd()) { inline = parseInline(); push }
RECURSIVE inlineLoop(_, _)
inlineLoop(toks, acc) ==
  IF Halted(acc.st) \/ parserIsAtEnd(toks, acc.st) \/ isBlockEnd(toks, acc.st)
  THEN acc
  ELSE inlineLoop(toks, iteration(acc, parseInline(toks, acc.st)))

parseInlines(toks, st) == inlineLoop(toks, ResList(st, <<>>))

\* while (!check(type) && !check(NEWLINE) && !isAtEnd()) { parseInline(); push }
RECURSIVE spanLoop(_, _, _)
spanLoop(toks, type, acc) ==
  IF Halted(acc.st) \/ check(toks, acc.st, type) \/ check(toks, acc.st, "newline")
     \/ parserIsAtEnd(toks, acc.st)
  THEN acc
  ELSE spanLoop(toks, type, iteration(acc, parseInline(toks, acc.st)))

\* the backtrack without the advance past the start marker
spanBacktrack_noAdvance(toks, st, startIndex, glyphs, position) ==
  withNode([st EXCEPT !.current = startIndex], createText(st.heap, glyphs, position))

\* this.current = startIndex; this.advance(); return createText(glyphs)
spanBacktrack(toks, st, startIndex, glyphs, position) ==
  withNode(parserAdvance(toks, [st EXCEPT !.current = startIndex]),
           createText(st.heap, glyphs, position))

\* childrenStr += inline.value || '' over the inlines of the span
RECURSIVE concatValues(_, _)
concatValues(heap, ns) ==
  IF ns = <<>> THEN <<>> ELSE heap[ns[1]].value \o concatValues(heap, Tail(ns))

\* the node a closed span returns
createSpan(heap, type, children, position) ==
  CASE type = "bold"   -> createBold(heap, children, position)
    [] type = "italic" -> createItalic(heap, children, position)
    [] type = "code"   -> createCode(heap, concatValues(heap, children), position)

\* the text a span without its closing mark becomes
spanGlyphs(type) ==
  CASE type = "bold"   -> <<"*", "*">>
    [] type = "italic" -> <<"*">>
    [] type = "code"   -> <<Backtick>>

\* a span wrapping what it collected whether or not the closing mark came
spanCollected_noBacktrack(toks, type, startIndex, startToken, l) ==
  IF Halted(l.st) THEN Res(l.st, 0)
  ELSE withNode(IF check(toks, l.st, type) THEN consume(toks, l.st, type) ELSE l.st,
                createSpan(l.st.heap, type, l.nodes, tokenPosition(startToken)))

\* parseBold, parseItalic and parseCode after their loop left l: consume the
\* closing mark and wrap the children, or backtrack to a text node
spanCollected(toks, type, startIndex, startToken, l) ==
  IF Halted(l.st) THEN Res(l.st, 0)
  ELSE IF check(toks, l.st, type)
  THEN withNode(consume(toks, l.st, type),
                createSpan(l.st.heap, type, l.nodes, tokenPosition(startToken)))
  ELSE spanBacktrack(toks, l.st, startIndex, spanGlyphs(type), tokenPosition(startToken))

parseBold_noBacktrack(toks, st) ==
  spanCollected_noBacktrack(toks, "bold", st.current, parserPeek(toks, st),
    spanLoop(toks, "bold", ResList(consume(toks, st, "bold"), <<>>)))

\* startToken, the token consume returns, is the token under the cursor
parseBold(toks, st) ==
  spanCollected(toks, "bold", st.current, parserPeek(toks, st),
    spanLoop(toks, "bold", ResList(consume(toks, st, "bold"), <<>>)))

parseItalic(toks, st) ==
  spanCollected(toks, "italic", st.current, parserPeek(toks, st),
    spanLoop(toks, "italic", ResList(consume(toks, st, "italic"), <<>>)))

parseCode(toks, st) ==
  spanCollected(toks, "code", st.current, parserPeek(toks, st),
    spanLoop(toks, "code", ResList(consume(toks, st, "code"), <<>>)))

parseLink(toks, st) ==
  LET c == consume(toks, st, "link")
  IN  IF Halted(c) THEN Res(c, 0)
      ELSE LET token == parserPeek(toks, st)
               m == matchBracketParen(token.value)
               h1 == createText(st.heap, m.text, tokenPosition(token))
           IN  withNode(c, createLink(h1, m.url, << Len(st.heap) + 1 >>,
                                      tokenPosition(token)))

parseImage(toks, st) ==
  LET c == consume(toks, st, "image")
  IN  IF Halted(c) THEN Res(c, 0)
      ELSE LET token == parserPeek(toks, st)
               m == matchImage(token.value)
           IN  withNode(c, createImage(st.heap, m.url, m.text, tokenPosition(token)))

parseNewline(toks, st) ==
  LET c == consume(toks, st, "newline")
  IN  IF Halted(c) THEN Res(c, 0)
      ELSE withNode(c, createNewLine(st.heap, tokenPosition(parserPeek(toks, st))))

\* token = advance(): the token under the cursor, or previous() at the end
parseText(toks, st) ==
  LET token == previous(toks, parserAdvance(toks, st))
  IN  withNode(parserAdvance(toks, st),
               createText(st.heap, token.value, tokenPosition(token)))

\* the text loop of tryParseLink over [st, nodes, crossed]; crossed = TRUE
\* when it met a newline.  A '[' or '!' becomes the text node of its token,
\* which is what parseText builds
RECURSIVE linkTextLoop(_, _)
linkTextLoop(toks, acc) ==
  IF Halted(acc.st) \/ parserIsAtEnd(toks, acc.st)
     \/ check(toks, acc.st, "bracket_close")
  THEN acc
  ELSE IF check(toks, acc.st, "newline")
  THEN [acc EXCEPT !.crossed = TRUE]
  ELSE IF parserPeek(toks, acc.st).type \in { "bracket_open", "exclamation" }
  THEN linkTextLoop(toks, iteration(acc, parseText(toks, acc.st)))
  ELSE linkTextLoop(toks, iteration(acc, parseInline(toks, acc.st)))

\* the url and src loops of tryParseLink and tryParseImage and the alt loop
\* of tryParseImage: while (!isAtEnd() && !check(close)) { text += advance().value }
RECURSIVE rawLoop(_, _, _, _)
rawLoop(toks, st, close, text) ==
  IF Halted(st) \/ parserIsAtEnd(toks, st) \/ check(toks, st, close)
  THEN [st |-> st, text |-> text, crossed |-> FALSE]
  ELSE IF check(toks, st, "newline")
  THEN [st |-> st, text |-> text, crossed |-> TRUE]
  ELSE rawLoop(toks, iterated(st, parserAdvance(toks, st)), close,
               text \o parserPeek(toks, st).value)

\* a failed attempt that leaves the cursor where the attempt stopped
attemptFailed_keepCursor(st, startPos) == Res([st EXCEPT !.error = FALSE], 0)

\* this.current = startPos; return null (also the catch clause, which ends
\* a ParseError in flight)
attemptFailed(st, startPos) ==
  Res([st EXCEPT !.current = startPos, !.error = FALSE], 0)

\* tryParseLink and tryParseImage after the url loop left u: the closing ')'
\* and the node; label is the link's text nodes or the image's alt text
linkUrlDone(toks, startPos, startToken, kind, label, u) ==
  IF u.st.stuck THEN Res(u.st, 0)
  ELSE IF u.crossed \/ ~check(toks, u.st, "paren_close")
  THEN attemptFailed(u.st, startPos)
  ELSE withNode(parserAdvance(toks, u.st),
                IF kind = "link"
                THEN createLink(u.st.heap, u.text, label, tokenPosition(startToken))
                ELSE createImage(u.st.heap, u.text, label, tokenPosition(startToken)))

\* tryParseLink and tryParseImage in state a1 after the ']': the '(' and the
\* url loop
linkTarget(toks, startPos, startToken, kind, label, a1) ==
  IF ~check(toks, a1, "paren_open") THEN attemptFailed(a1, startPos)
  ELSE linkUrlDone(toks, startPos, startToken, kind, label,
                   rawLoop(toks, parserAdvance(toks, a1), "paren_close", <<>>))

\* tryParseLink after its text loop left t
linkTextDone(toks, startPos, startToken, t) ==
  IF t.st.stuck THEN Res(t.st, 0)
  ELSE IF t.st.error \/ t.crossed \/ ~check(toks, t.st, "bracket_close")
  THEN attemptFailed(t.st, startPos)
  ELSE linkTarget(toks, startPos, startToken, "link", t.nodes,
                  parserAdvance(toks, t.st))

tryParseLink(toks, st) ==
  IF ~check(toks, st, "bracket_open") THEN Res(st, 0)
  ELSE linkTextDone(toks, st.current, parserPeek(toks, st),
         linkTextLoop(toks, [st |-> parserAdvance(toks, st), nodes |-> <<>>,
                             crossed |-> FALSE]))

\* tryParseImage after its alt loop left t
imageAltDone(toks, startPos, startToken, t) ==
  IF t.st.stuck THEN Res(t.st, 0)
  ELSE IF t.crossed \/ ~check(toks, t.st, "bracket_close")
  THEN attemptFailed(t.st, startPos)
  ELSE linkTarget(toks, startPos, startToken, "image", t.text,
                  parserAdvance(toks, t.st))

\* tryParseImage in state a0 after the '!'
imageOpened(toks, startPos, startToken, a0) ==
  IF ~check(toks, a0, "bracket_open") THEN attemptFailed(a0, startPos)
  ELSE imageAltDone(toks, startPos, startToken,
         rawLoop(toks, parserAdvance(toks, a0), "bracket_close", <<>>))

tryParseImage(toks, st) ==
  IF ~check(toks, st, "exclamation") THEN Res(st, 0)
  ELSE imageOpened(toks, st.current, parserPeek(toks, st), parserAdvance(toks, st))

\* const link = tryParseLink(); if (link) return link; return parseText()
orText(toks, r) ==
  IF Halted(r.st) \/ r.node # 0 THEN r ELSE parseText(toks, r.st)

parseInline(toks, st) ==
  IF parserIsAtEnd(toks, st) THEN Res(st, 0)
  ELSE LET type == parserPeek(toks, st).type
       IN  CASE type = "bold"   -> parseBold(toks, st)
             [] type = "italic" -> parseItalic(toks, st)
             [] type = "code"   -> parseCode(toks, st)
             [] type = "link"   -> parseLink(toks, st)
             [] type = "bracket_open" -> orText(toks, tryParseLink(toks, st))
             [] type = "exclamation"  -> orText(toks, tryParseImage(toks, st))
             [] type = "image"   -> parseImage(toks, st)
             [] type = "newline" -> parseNewline(toks, st)
             [] OTHER            -> parseText(toks, st)

\* token.value?.length || 1
headingLevel(token) == IF Len(token.value) = 0 THEN 1 ELSE Len(token.value)

\* return nodeFactory.createX(children, position) of parseHeading (arg is the
\* level), parseParagraph, parseQuote and parseList (arg is ordered), once
\* the children loop left l
createBlock(l, type, arg, position) ==
  IF Halted(l.st) THEN Res(l.st, 0)
  ELSE withNode(l.st,
         CASE type = "heading"   -> createHeading(l.st.heap, arg, l.nodes, position)
           [] type = "paragraph" -> createParagraph(l.st.heap, l.nodes, position)
           [] type = "quote"     -> createQuote(l.st.heap, l.nodes, position)
           [] type = "list"      -> createList(l.st.heap, arg, l.nodes, position))

\* token, the token consume returns, is the token under the cursor
parseHeading(toks, st) ==
  createBlock(parseInlines(toks, consume(toks, st, "heading")), "heading",
              headingLevel(parserPeek(toks, st)), tokenPosition(parserPeek(toks, st)))

parseParagraph(toks, st) ==
  createBlock(inlineLoop(toks, ResList(st, <<>>)), "paragraph", 0,
              tokenPosition(parserPeek(toks, st)))

parseCodeBlock(toks, st) ==
  LET c == consume(toks, st, "code_block")
  IN  IF Halted(c) THEN Res(c, 0)
      ELSE LET token == parserPeek(toks, st)
               lines == split(token.value)
               fence == <<Backtick, Backtick, Backtick>>
               hasLanguage == startsWith(lines[1], fence)
               language == IF hasLanguage
                           THEN trim(SubSeq(lines[1], 4, Len(lines[1])))
                           ELSE <<>>
               code == join(SubSeq(lines, 2, Len(lines) - 1))
           IN  withNode(c, createCodeBlock(st.heap, code, hasLanguage, language,
                                           tokenPosition(token)))

parseHorizontalRule(toks, st) ==
  LET c == consume(toks, st, "horizontal_rule")
  IN  IF Halted(c) THEN Res(c, 0)
      ELSE withNode(c, createHorizontalRule(st.heap, tokenPosition(parserPeek(toks, st))))

\* spaces of indent per nesting level
SpacesPerLevel == 2

getCurrentIndent(toks, st) ==
  IF st.current > 0 /\ toks[st.current].type = "whitespace"
  THEN Len(toks[st.current].value) \div SpacesPerLevel
  ELSE 0

\* a plain item reported as unchecked
checkedOf_plainFalse(value) ==
  IF includes(value, <<"[", "x", "]">>) \/ includes(value, <<"[", "X", "]">>) THEN "true"
  ELSE "false"

\* the checked field parseListItem derives from the literal
checkedOf(value) ==
  IF includes(value, <<"[", "x", "]">>) \/ includes(value, <<"[", "X", "]">>) THEN "true"
  ELSE IF includes(value, <<"[", " ", "]">>) THEN "false"
  ELSE "undefined"

RECURSIVE parseListItem(_, _)

\* while (!isAtEnd() && check(LIST_ITEM)) { break when indent < baseIndent;
\* items.push(parseListItem()) }
RECURSIVE nestedItemsLoop(_, _, _)
nestedItemsLoop(toks, baseIndent, acc) ==
  IF Halted(acc.st) \/ parserIsAtEnd(toks, acc.st) \/ ~check(toks, acc.st, "list_item")
  THEN acc
  ELSE IF getCurrentIndent(toks, acc.st) < baseIndent
  THEN acc
  ELSE nestedItemsLoop(toks, baseIndent, iteration(acc, parseListItem(toks, acc.st)))

parseNestedListItems(toks, st, baseIndent) ==
  nestedItemsLoop(toks, baseIndent, ResList(st, <<>>))

\* parseListItem after parseNestedListItems left n: the nested list, if it
\* has items, becomes the last child
listItemNested(toks, token, children, n) ==
  IF Halted(n.st) THEN Res(n.st, 0)
  ELSE IF Len(n.nodes) = 0
  THEN withNode(n.st, createListItem(n.st.heap, children, tokenPosition(token),
                                     checkedOf(token.value)))
  ELSE LET firstChildToken == toks[n.st.current - Len(n.nodes) + 1]
           childOrdered == matchOrderedMarker(firstChildToken.value)
           h2 == createList(n.st.heap, childOrdered, n.nodes, tokenPosition(token))
       IN  withNode(n.st, createListItem(h2, Append(children, Len(n.st.heap) + 1),
                                         tokenPosition(token), checkedOf(token.value)))

\* parseListItem in state p.st with p.nodes its children so far (the
\* paragraph of its inlines, if any)
listItemChildren(toks, currentIndent, token, p) ==
  IF ~parserIsAtEnd(toks, p.st) /\ check(toks, p.st, "list_item")
     /\ getCurrentIndent(toks, p.st) > currentIndent
  THEN listItemNested(toks, token, p.nodes,
         parseNestedListItems(toks, p.st, getCurrentIndent(toks, p.st)))
  ELSE withNode(p.st, createListItem(p.st.heap, p.nodes, tokenPosition(token),
                                     checkedOf(token.value)))

\* parseListItem after parseInlines left l: wrap the inlines in a paragraph
listItemInlines(toks, currentIndent, token, l) ==
  IF Halted(l.st) THEN Res(l.st, 0)
  ELSE IF Len(l.nodes) > 0
  THEN listItemChildren(toks, currentIndent, token,
         ResList([l.st EXCEPT !.heap = createParagraph(@, l.nodes, tokenPosition(token))],
                 << Len(l.st.heap) + 1 >>))
  ELSE listItemChildren(toks, currentIndent, token, ResList(l.st, <<>>))

parseListItem(toks, st) ==
  listItemInlines(toks, getCurrentIndent(toks, st), parserPeek(toks, st),
                  parseInlines(toks, consume(toks, st, "list_item")))

parseList(toks, st) ==
  createBlock(parseNestedListItems(toks, st, 0), "list",
              matchOrderedMarker(parserPeek(toks, st).value),
              tokenPosition(parserPeek(toks, st)))

RECURSIVE parseBlock(_, _)

\* while (!isAtEnd()) { skip a newline, or block = parseBlock(); push }
RECURSIVE parseBlocksLoop(_, _)
parseBlocksLoop(toks, acc) ==
  IF Halted(acc.st) \/ parserIsAtEnd(toks, acc.st) THEN acc
  ELSE IF check(toks, acc.st, "newline")
  THEN parseBlocksLoop(toks,
         [acc EXCEPT !.st = iterated(acc.st, parserAdvance(toks, acc.st))])
  ELSE parseBlocksLoop(toks, iteration(acc, parseBlock(toks, acc.st)))

parseBlocks(toks, st) == parseBlocksLoop(toks, ResList(st, <<>>))

\* a quote that takes one block only
parseQuote_oneBlock(toks, st) ==
  createBlock(iteration(ResList(consume(toks, st, "quote"), <<>>),
                        parseBlock(toks, consume(toks, st, "quote"))),
              "quote", 0, tokenPosition(parserPeek(toks, st)))

parseQuote(toks, st) ==
  createBlock(parseBlocks(toks, consume(toks, st, "quote")), "quote", 0,
              tokenPosition(parserPeek(toks, st)))

\* parseBlock sending the lexer's '#' token to parseHeading as well
parseBlock_hashHeading(toks, st) ==
  IF parserIsAtEnd(toks, st) THEN Res(st, 0)
  ELSE LET type == parserPeek(toks, st).type
       IN  CASE type \in { "heading", "hash" } -> parseHeading(toks, st)
             [] type = "code_block"      -> parseCodeBlock(toks, st)
             [] type = "quote"           -> parseQuote(toks, st)
             [] type = "list_item"       -> parseList(toks, st)
             [] type = "horizontal_rule" -> parseHorizontalRule(toks, st)
             [] OTHER                    -> parseParagraph(toks, st)

parseBlock(toks, st) ==
  IF parserIsAtEnd(toks, st) THEN Res(st, 0)
  ELSE LET type == parserPeek(toks, st).type
       IN  CASE type = "heading"         -> parseHeading(toks, st)
             [] type = "code_block"      -> parseCodeBlock(toks, st)
             [] type = "quote"           -> parseQuote(toks, st)
             [] type = "list_item"       -> parseList(toks, st)
             [] type = "horizontal_rule" -> parseHorizontalRule(toks, st)
             [] OTHER                    -> parseParagraph(toks, st)

\* return nodeFactory.createDocument(children, position) once parseBlocks
\* left l.  returned = FALSE when a ParseError escaped or a loop stopped
\* advancing; root = 0 then
documentOf(l) ==
  IF Halted(l.st)
  THEN [ heap |-> l.st.heap, root |-> 0, current |-> l.st.current,
         raised |-> l.st.raised, stuck |-> l.st.stuck, returned |-> FALSE ]
  ELSE [ heap |-> createDocument(l.st.heap, l.nodes, NoPosition),
         root |-> Len(l.st.heap) + 1, current |-> l.st.current,
         raised |-> l.st.raised, stuck |-> l.st.stuck, returned |-> TRUE ]

\* parse(tokens): what the call leaves
parse(toks) == documentOf(parseBlocks(toks, ParserState(<<>>)))

(***************************************************************************)
(* parse(tokens) as one step, over token sequences that end in the         *)
(* end-of-stream token.                                                    *)
(***************************************************************************)
Tok(type, value) == [type |-> type, value |-> value]

\* every member of the TokenType enumeration, with a literal
AnyTokens ==
  { Tok("document", <<"a">>), Tok("heading", <<"#", "#">>), Tok("paragraph", <<"a">>),
    Tok("code_block", <<Backtick, Backtick, Backtick>>), Tok("quote", <<">">>),
    Tok("list", <<"a">>), Tok("list_item", <<"-", " ">>),
    Tok("horizontal_rule", <<"-", "-", "-">>), Tok("bold", <<"*", "*">>),
    Tok("italic", <<"*">>), Tok("code", <<Backtick>>),
    Tok("link", <<"[", "a", "]", "(", "a", ")">>),
    Tok("image", <<"!", "[", "a", "]", "(", "a", ")">>),
    Tok("asterisk", <<"*">>), Tok("backtick", <<Backtick>>),
    Tok("bracket_open", <<"[">>), Tok("bracket_close", <<"]">>),
    Tok("paren_open", <<"(">>), Tok("paren_close", <<")">>), Tok("hash", <<"#">>),
    Tok("exclamation", <<"!">>), Tok("greater_than", <<">">>), Tok("minus", <<"-">>),
    Tok("digit", <<"1">>), Tok("dot", <<".">>), Tok("text", <<"a">>),
    Tok("whitespace", <<" ", " ">>), Tok("newline", <<"\n">>), Tok("tab", <<"\t">>),
    Tok("eof", <<>>), Tok("unknown", <<"a">>) }

\* the kinds the inline rules tell apart
InlineTokens ==
  { Tok("bold", <<"*", "*">>), Tok("italic", <<"*">>), Tok("code", <<Backtick>>),
    Tok("bracket_open", <<"[">>), Tok("bracket_close", <<"]">>),
    Tok("paren_open", <<"(">>), Tok("paren_close", <<")">>),
    Tok("exclamation", <<"!">>), Tok("newline", <<"\n">>), Tok("text", <<"a">>) }

\* the kinds the block and list rules tell apart, with one inline marker
BlockTokens ==
  { Tok("list_item", <<"1", ".", " ">>), Tok("list_item", <<"-", " ">>),
    Tok("whitespace", <<" ", " ">>), Tok("quote", <<">">>), Tok("heading", <<"#">>),
    Tok("newline", <<"\n">>), Tok("text", <<"a">>), Tok("bold", <<"*", "*">>) }

\* list-item tokens with and without checkbox marks, and a text token
TaskTokens ==
  { Tok("list_item", << "-", " ", "[", "x", "]", " " >>),
    Tok("list_item", << "-", " ", "[", "X", "]", " " >>),
    Tok("list_item", << "-", " ", "[", " ", "]", " " >>),
    Tok("list_item", << "-", " ", "[", " ", "]", " ", "[", "x", "]" >>),
    Tok("list_item", << "-", " " >>),
    Tok("text", << "a" >>) }

\* [ text ] ( url ) and ! [ alt ] ( src ), closed or not, with any inline
\* tokens as text and url
LinkShapes ==
  { pre \o << Tok("bracket_open", <<"[">>) >> \o x
        \o << Tok("bracket_close", <<"]">>), Tok("paren_open", <<"(">>) >> \o y \o post :
      pre \in { <<>>, << Tok("exclamation", <<"!">>) >> },
      x \in SeqsUpTo(InlineTokens, MaxFill),
      y \in SeqsUpTo(InlineTokens, 1),
      post \in { <<>>, << Tok("paren_close", <<")">>) >> } }

\* the tokens with the positions a lexer gives literals laid end to end
RECURSIVE withPositions(_, _, _)
withPositions(ts, i, cur) ==
  IF i > Len(ts) THEN <<>>
  ELSE LET v == ts[i].value
           after == IF ts[i].type = "newline"
                    THEN Cursor(cur.offset + Len(v), cur.line + 1, 1)
                    ELSE Cursor(cur.offset + Len(v), cur.line, cur.column + Len(v))
       IN  << createToken(after, ts[i].type, v) >> \o withPositions(ts, i + 1, after)

ParseInputs ==
  { withPositions(ts \o << Tok("eof", <<>>) >>, 1, Cursor(0, 1, 1)) :
      ts \in SeqsUpTo(AnyTokens, MaxAnyTokens)
               \cup SeqsUpTo(InlineTokens, MaxInlineTokens)
               \cup SeqsUpTo(BlockTokens, MaxBlockTokens)
               \cup SeqsUpTo(TaskTokens, MaxTaskTokens)
               \cup LinkShapes }

ParseInit ==
  /\ ptokens \in ParseInputs
  /\ presult = <<>>
  /\ ppc = "ready"
  /\ LexIdle
  /\ TreeIdle
  /\ ScrollIdle

\* parser.parse(ptokens)
Parse ==
  /\ ppc = "ready"
  /\ presult' = parse(ptokens)
  /\ ppc' = "done"
  /\ UNCHANGED << ptokens, lexvars, treevars, scrollvars >>

ParseNext == Parse

SpecParse == ParseInit /\ [][ParseNext]_vars

(***************************************************************************)
(* parser.parse(new MarkdownLexer(raw).tokenize()): the lexer's loop, then  *)
(* parse on the array it returned.                                         *)
(***************************************************************************)
\* the longest run of '#' scanHash makes one token of
MaxHeadingLevel == 6

PipeAlphabet == { "#", ">", "*", Backtick, "-", "a", " ", "\n" }

Fence == << Backtick, Backtick, Backtick >>

\* the three span delimiters
Delimiters == { << "*", "*" >>, << "*" >>, << Backtick >> }

\* lines that open with a block marker, delimited spans, lists, fenced code
\* blocks and links, and every short string over PipeAlphabet
PipeInputs ==
  SeqsUpTo(PipeAlphabet, MaxPipeLen)
    \cup { Repeat("#", n) \o t : n \in 1..(MaxHeadingLevel + 1),
                                 t \in { << "a" >>, << " ", "a" >>, << " ", "a", "\n", "a" >> } }
    \cup { << ">" >> \o t : t \in { << "a" >>, << " ", "a" >>, << " ", "#", " ", "a" >> } }
    \cup { d \o t \o d : d \in Delimiters, t \in { << "a" >>, << "a", " ", "a" >> } }
    \cup { d \o << "a" >> : d \in Delimiters }
    \cup { << "1", ".", " ", "a", "\n", "2", ".", " ", "b", "\n",
             " ", " ", " ", "-", " ", "c" >>,
           << "-", " ", "a", "\n", "-", " ", "b" >>,
           << "-", " ", "[", "x", "]", " ", "a" >>,
           << "-", " ", "[", " ", "]", " ", "a" >> }
    \cup { Fence \o tag \o << "\n" >> \o body \o Fence :
             tag \in { <<>>, << "j", "s" >> },
             body \in { <<>>, << "a", "\n" >>, << "a", "\n", "b", "\n" >> } }
    \cup { << "[", "a", "]", "(", "b", ")" >>, << "[", "a", "]", "(" >>,
           << "!", "[", "a", "]", "(", "b", ")" >>, << "!", "[", "a", "]" >> }
    \cup { << "[", "*", "*", "[", "a", "]", "(", "b", ")", "*", "*", "]", "(", "c", ")" >>,
           << "[", "a", "]", "(", "b", ")", "[", "a", "]", "(", "c", ")" >>,
           << "*", "*", "-", "-", "-", "*", "*" >>,
           << "[", "-", "-", "-", "]", "(", "b", ")" >>,
           << "a", "-", "-", "-" >> }

\* new MarkdownLexer(raw); parse not called yet
PipeInit ==
  /\ raw \in PipeInputs
  /\ input = normalizeNewlines(raw)
  /\ offset = 0
  /\ line = 1
  /\ column = 1
  /\ tokens = <<>>
  /\ lexpc = "scan"
  /\ returned = <<>>
  /\ ParseIdle
  /\ TreeIdle
  /\ ScrollIdle

\* const ast = parser.parse(tokens) on the array tokenize() returned
ParseTokens ==
  /\ lexpc = "done"
  /\ ppc = "idle"
  /\ ptokens' = tokens
  /\ presult' = parse(tokens)
  /\ ppc' = "done"
  /\ UNCHANGED << lexvars, treevars, scrollvars >>

PipeNext == TokenizeStep \/ TokenizeEnd \/ ParseTokens

SpecPipe == PipeInit /\ [][PipeNext]_vars

(***************************************************************************)
(* Structural edits of ASTTransformer on the node store, statement by      *)
(* statement.  index = -1 stands for an undefined index.                   *)
(***************************************************************************)
\* Array.prototype.indexOf, 1-based; 0 when absent
indexOf(arr, x) ==
  LET hits == { i \in 1..Len(arr) : arr[i] = x }
  IN  IF hits = {} THEN 0 ELSE CHOOSE i \in hits : \A j \in hits : i <= j

\* arr.splice(index, 0, x) with 0 <= index
spliceIn(arr, index, x) ==
  LET at == IF index > Len(arr) THEN Len(arr) ELSE index
  IN  SubSeq(arr, 1, at) \o << x >> \o SubSeq(arr, at + 1, Len(arr))

\* arr.splice(i - 1, 1) for the 1-based place i
spliceOut(arr, i) == SubSeq(arr, 1, i - 1) \o SubSeq(arr, i + 1, Len(arr))

insertNode(heap, parent, node, index) ==
  LET h1 == IF ~heap[parent].hasChildren
            THEN [heap EXCEPT ![parent].hasChildren = TRUE, ![parent].children = <<>>]
            ELSE heap
      h2 == [h1 EXCEPT ![node].parent = parent]
  IN  IF index = -1
      THEN [h2 EXCEPT ![parent].children = Append(@, node)]
      ELSE [h2 EXCEPT ![parent].children = spliceIn(@, index, node)]

removeNode(heap, node) ==
  LET parent == heap[node].parent
  IN  IF parent = 0 \/ ~heap[parent].hasChildren THEN heap
      ELSE LET index == indexOf(heap[parent].children, node)
           IN  IF index = 0 THEN heap
               ELSE LET h1 == [heap EXCEPT ![parent].children = spliceOut(@, index)]
                    IN  [h1 EXCEPT ![node].parent = 0]

replaceNode(heap, oldNode, newNode) ==
  LET parent == heap[oldNode].parent
  IN  IF parent = 0 \/ ~heap[parent].hasChildren THEN heap
      ELSE LET index == indexOf(heap[parent].children, oldNode)
           IN  IF index = 0 THEN heap
               ELSE LET h1 == [heap EXCEPT ![newNode].parent = parent]
                        h2 == [h1 EXCEPT ![parent].children[index] = newNode]
                    IN  [h2 EXCEPT ![oldNode].parent = 0]

moveNode(heap, node, newParent, index) ==
  insertNode(removeNode(heap, node), newParent, node, index)

\* arrays of distinct existing nodes a caller can hand to a factory
ChildArrays(heap) ==
  { a \in SeqsUpTo(1..Len(heap), MaxChildren) :
      \A i, j \in 1..Len(a) : a[i] = a[j] => i = j }

TreeInit ==
  /\ nodes = <<>>
  /\ AstIdle
  /\ LexIdle
  /\ ParseIdle
  /\ ScrollIdle

\* nodeFactory.createText('a', position)
FactoryCreateText ==
  /\ Len(nodes) < MaxNodes
  /\ nodes' = createText(nodes, <<"a">>, NoPosition)
  /\ UNCHANGED << lexvars, parservars, astvars, scrollvars >>

\* nodeFactory.createParagraph(children, position)
FactoryCreateParagraph ==
  /\ Len(nodes) < MaxNodes
  /\ \E children \in ChildArrays(nodes) :
       nodes' = createParagraph(nodes, children, NoPosition)
  /\ UNCHANGED << lexvars, parservars, astvars, scrollvars >>

\* transformer.insertNode(parent, node, index)
InsertNode ==
  /\ \E parent, node \in 1..Len(nodes) :
       /\ Len(nodes[parent].children) < MaxChildren
       /\ \E index \in -1..Len(nodes[parent].children) :
            nodes' = insertNode(nodes, parent, node, index)
  /\ UNCHANGED << lexvars, parservars, astvars, scrollvars >>

\* transformer.removeNode(node)
RemoveNode ==
  /\ \E node \in 1..Len(nodes) : nodes' = removeNode(nodes, node)
  /\ UNCHANGED << lexvars, parservars, astvars, scrollvars >>

\* transformer.replaceNode(oldNode, newNode)
ReplaceNode ==
  /\ \E oldNode, newNode \in 1..Len(nodes) :
       nodes' = replaceNode(nodes, oldNode, newNode)
  /\ UNCHANGED << lexvars, parservars, astvars, scrollvars >>

\* transformer.moveNode(node, newParent, index)
MoveNode ==
  /\ \E node, newParent \in 1..Len(nodes) :
       /\ Len(removeNode(nodes, node)[newParent].children) < MaxChildren
       /\ \E index \in -1..Len(removeNode(nodes, node)[newParent].children) :
            nodes' = moveNode(nodes, node, newParent, index)
  /\ UNCHANGED << lexvars, parservars, astvars, scrollvars >>

TreeNext ==
  \/ FactoryCreateText
  \/ FactoryCreateParagraph
  \/ InsertNode
  \/ RemoveNode
  \/ ReplaceNode
  \/ MoveNode

SpecTree == TreeInit /\ [][TreeNext]_vars

(***************************************************************************)
(* The traverser and the transformer over a parsed tree.  One step is one  *)
(* call; aop records the call: its operation, the node it was given, its   *)
(* argument, what it returned, the node store before the call, and for a   *)
(* traversal the nodes visitNode was applied to, the callbacks that fired  *)
(* and the results array.                                                  *)
(***************************************************************************)
\* the nodes of the tree under n, n included
RECURSIVE Subtree(_, _)
Subtree(heap, n) ==
  {n} \cup UNION { Subtree(heap, heap[n].children[k]) : k \in 1..Len(heap[n].children) }

\* const cloned = {...node}; cloned.parent = undefined, kept as it was
cloned_keepParent(acc, node) ==
  [ heap |-> Append(setParentChild(acc.heap, Len(acc.heap) + 1, acc.out),
                    [node EXCEPT !.children = acc.out]),
    out  |-> Len(acc.heap) + 1 ]

\* the copy of node, stored after the copies of its children were given it
\* as parent
cloned(acc, node) ==
  [ heap |-> Append(setParentChild(acc.heap, Len(acc.heap) + 1, acc.out),
                    [node EXCEPT !.parent = 0, !.children = acc.out]),
    out  |-> Len(acc.heap) + 1 ]

\* one more copied child
clonedChild(acc, r) == [ heap |-> r.heap, out |-> Append(acc.out, r.out) ]

RECURSIVE clone(_, _)
RECURSIVE cloneChildren(_, _)
\* cloned.children.map(child => this.clone(child))
cloneChildren(acc, children) ==
  IF children = <<>> THEN acc
  ELSE cloneChildren(clonedChild(acc, clone(acc.heap, Head(children))), Tail(children))

\* transformer.clone(node): [heap, out], out the copy
clone(heap, node) ==
  cloned(cloneChildren([ heap |-> heap, out |-> <<>> ], heap[node].children), heap[node])

\* a visitor: the kinds it has a callback for, the kinds whose callback
\* returns a value, whether it has visitNode, and whether visitNode returns
\* a value
Visitor(specific, returns, fallback, fallbackReturns) ==
  [ specific |-> specific, returns |-> returns,
    fallback |-> fallback, fallbackReturns |-> fallbackReturns ]

\* the callbacks visitNode invokes on a node of a kind, in order
visitNodeCalls(type, visitor) ==
  (IF type \in visitor.specific THEN << "specific" >> ELSE <<>>)
    \o (IF type \notin visitor.returns /\ visitor.fallback
        THEN << "visitNode" >> ELSE <<>>)

\* what visitNode returns for a node of a kind: the callback whose value it
\* is, or "undefined"
visitNode(type, visitor) ==
  IF type \in visitor.returns THEN "specific"
  ELSE IF visitor.fallback /\ visitor.fallbackReturns THEN "visitNode"
  ELSE "undefined"

\* options.filter is empty, or holds the set of kinds the predicate accepts
\* if (!filter || filter(currentNode)) { result = this.visitNode(...);
\* if (result !== undefined) results.push(result) }
applyVisitor(acc, n, type, visitor, options) ==
  IF options.filter # <<>> /\ type \notin options.filter[1] THEN acc
  ELSE [ acc EXCEPT
           !.visits = Append(@, n),
           !.calls = @ \o [ k \in 1..Len(visitNodeCalls(type, visitor)) |->
                              [ node |-> n, callback |-> visitNodeCalls(type, visitor)[k] ] ],
           !.results = IF visitNode(type, visitor) = "undefined" THEN @
                       ELSE Append(@, [ node |-> n, by |-> visitNode(type, visitor) ]) ]

\* the node is visited before its children whatever the options say
visitBefore_always(acc, n, type, visitor, options) ==
  IF options.includeSelf THEN applyVisitor(acc, n, type, visitor, options) ELSE acc

\* if (!depthFirst && includeSelf)
visitBefore(acc, n, type, visitor, options) ==
  IF ~options.depthFirst /\ options.includeSelf
  THEN applyVisitor(acc, n, type, visitor, options) ELSE acc

\* if (depthFirst && includeSelf)
visitAfter(acc, n, type, visitor, options) ==
  IF options.depthFirst /\ options.includeSelf
  THEN applyVisitor(acc, n, type, visitor, options) ELSE acc

\* no node counts as visited
seen_never(acc, n) == FALSE

\* visited.has(currentNode)
seen(acc, n) == n \in acc.visited

RECURSIVE visit(_, _, _, _, _)
RECURSIVE visitChildren(_, _, _, _, _)
\* for (const child of currentNode.children) visit(child)
visitChildren(heap, acc, children, visitor, options) ==
  IF children = <<>> THEN acc
  ELSE visitChildren(heap, visit(heap, acc, Head(children), visitor, options),
                     Tail(children), visitor, options)

\* the closure visit of traverse
visit(heap, acc, n, visitor, options) ==
  IF seen(acc, n) THEN acc
  ELSE visitAfter(
         visitChildren(heap,
                       visitBefore([ acc EXCEPT !.visited = @ \cup { n } ],
                                   n, heap[n].type, visitor, options),
                       heap[n].children, visitor, options),
         n, heap[n].type, visitor, options)

\* traverser.traverse(node, visitor, options)
traverse(heap, node, visitor, options) ==
  visit(heap, [ visited |-> {}, visits |-> <<>>, calls |-> <<>>, results |-> <<>> ],
        node, visitor, options)

\* a transformer function: the kinds it answers null for, the kinds it
\* answers nodeFactory.createText('T', node.position) for; any other node
\* is answered as it is
transformer(heap, node, fn) ==
  IF heap[node].type \in fn.drop THEN [ heap |-> heap, out |-> 0 ]
  ELSE IF heap[node].type \in fn.fresh
       THEN [ heap |-> createText(heap, << "T" >>, heap[node].position),
              out  |-> Len(heap) + 1 ]
  ELSE [ heap |-> heap, out |-> node ]

\* .filter(Boolean) over one more transformed child
transformedChild(acc, r) ==
  [ heap |-> r.heap, out |-> IF r.out = 0 THEN acc.out ELSE Append(acc.out, r.out) ]

\* result.children = ...
childrenAssigned(acc, result) ==
  [ heap |-> [ acc.heap EXCEPT ![result].children = acc.out ], out |-> result ]

RECURSIVE transformResult(_, _)
RECURSIVE transformChildren(_, _, _)
\* result.children.map(child => this.transform(child, transformer))
transformChildren(acc, children, fn) ==
  IF children = <<>> THEN acc
  ELSE transformChildren(
         transformedChild(acc, transformResult(transformer(acc.heap, Head(children), fn), fn)),
         Tail(children), fn)

\* transform after transformer(node) answered r
transformResult(r, fn) ==
  IF r.out = 0 THEN r
  ELSE IF ~r.heap[r.out].hasChildren THEN r
  ELSE childrenAssigned(
         transformChildren([ heap |-> r.heap, out |-> <<>> ], r.heap[r.out].children, fn),
         r.out)

\* transformer.transform(node, fn): [heap, out], out = 0 for null
transform(heap, node, fn) == transformResult(transformer(heap, node, fn), fn)

\* the tokens the trees of this specification are parsed from
AstTokens ==
  { Tok("text", << "a" >>),
    Tok("bold", << "*", "*" >>),
    Tok("list_item", << "-", " " >>),
    Tok("newline", << "\n" >>) }

AstInputs ==
  { withPositions(ts \o << Tok("eof", <<>>) >>, 1, Cursor(0, 1, 1)) :
      ts \in SeqsUpTo(AstTokens, MaxAstTokens) }

\* the kinds the visitors and the transformer functions tell apart
CallbackKinds == { "text", "paragraph" }

Visitors ==
  { Visitor(specific, returns, fallback, fallbackReturns) :
      specific \in SUBSET CallbackKinds, returns \in SUBSET CallbackKinds,
      fallback \in BOOLEAN, fallbackReturns \in BOOLEAN }

TraversalOptions ==
  [ depthFirst : BOOLEAN, includeSelf : BOOLEAN, filter : { <<>>, << { "text" } >> } ]

TransformFns ==
  { fn \in [ drop : SUBSET CallbackKinds, fresh : SUBSET CallbackKinds ] :
      fn.drop \cap fn.fresh = {} }

AstInit ==
  /\ \E toks \in AstInputs :
       /\ nodes = parse(toks).heap
       /\ aroot = parse(toks).root
  /\ aop = NoCall
  /\ LexIdle
  /\ ParseIdle
  /\ ScrollIdle

\* transformer.clone(node)
Clone ==
  /\ aop = NoCall
  /\ \E node \in Subtree(nodes, aroot) :
       /\ nodes' = clone(nodes, node).heap
       /\ aop' = [ NoCall EXCEPT !.op = "clone", !.node = node, !.before = nodes,
                                 !.out = clone(nodes, node).out ]
  /\ UNCHANGED << aroot, lexvars, parservars, scrollvars >>

\* traverser.traverse(node, visitor, options)
Traverse ==
  /\ aop = NoCall
  /\ \E node \in Subtree(nodes, aroot), visitor \in Visitors, options \in TraversalOptions :
       /\ visitor.returns \subseteq visitor.specific
       /\ visitor.fallbackReturns => visitor.fallback
       /\ aop' = [ NoCall EXCEPT
                     !.op = "traverse", !.node = node, !.before = nodes,
                     !.arg = << visitor, options >>,
                     !.visits = traverse(nodes, node, visitor, options).visits,
                     !.calls = traverse(nodes, node, visitor, options).calls,
                     !.results = traverse(nodes, node, visitor, options).results ]
  /\ UNCHANGED << nodes, aroot, lexvars, parservars, scrollvars >>

\* transformer.transform(node, fn)
Transform ==
  /\ aop = NoCall
  /\ \E node \in Subtree(nodes, aroot), fn \in TransformFns :
       /\ nodes' = transform(nodes, node, fn).heap
       /\ aop' = [ NoCall EXCEPT !.op = "transform", !.node = node, !.before = nodes,
                                 !.arg = << fn >>,
                                 !.out = transform(nodes, node, fn).out ]
  /\ UNCHANGED << aroot, lexvars, parservars, scrollvars >>

AstNext == Clone \/ Traverse \/ Transform

SpecAst == AstInit /\ [][AstNext]_vars

(***************************************************************************)
(* traverse, one step of the closure visit at a time, over node graphs     *)
(* that insertNode builds from childless paragraphs: a node can then be    *)
(* listed twice, under two parents, under itself or under a descendant.    *)
(* aop.stack holds the activations of visit, each with its node and the    *)
(* number of children it has gone into; aop.visited is the visited set.    *)
(***************************************************************************)
RECURSIVE paragraphs(_, _)
\* n times nodeFactory.createParagraph([], position)
paragraphs(heap, n) ==
  IF n = 0 THEN heap ELSE paragraphs(createParagraph(heap, <<>>, NoPosition), n - 1)

RECURSIVE insertedAll(_, _)
\* transformer.insertNode(parent, node) for every pair of edits, in order
insertedAll(heap, edits) ==
  IF edits = <<>> THEN heap
  ELSE insertedAll(insertNode(heap, Head(edits)[1], Head(edits)[2], -1), Tail(edits))

Graphs ==
  { insertedAll(paragraphs(<<>>, MaxGraphNodes), edits) :
      edits \in SeqsUpTo((1..MaxGraphNodes) \X (1..MaxGraphNodes), MaxGraphEdits) }

\* the visitor of the traverser tests: visitNode: node => node.type
WalkVisitor == Visitor({}, {}, TRUE, TRUE)

\* the innermost activation of visit
top(stack) == stack[Len(stack)]

\* visit returns
pop(stack) == SubSeq(stack, 1, Len(stack) - 1)

\* the innermost activation moves on to its next child
advanced(stack) == [ stack EXCEPT ![Len(stack)].next = @ + 1 ]

WalkInit ==
  /\ nodes \in Graphs
  /\ aroot = 1
  /\ aop = NoCall
  /\ LexIdle
  /\ ParseIdle
  /\ ScrollIdle

\* traverser.traverse(node, visitor, { depthFirst }): visit(node) is entered
TraverseCall ==
  /\ aop = NoCall
  /\ \E depthFirst \in BOOLEAN :
       aop' = [ NoCall EXCEPT
                  !.op = "visiting", !.node = aroot,
                  !.arg = << WalkVisitor,
                             [ depthFirst |-> depthFirst, includeSelf |-> TRUE,
                               filter |-> <<>> ] >>,
                  !.stack = << [ node |-> aroot, next |-> 0 ] >> ]
  /\ UNCHANGED << nodes, aroot, lexvars, parservars, scrollvars >>

\* if (visited.has(currentNode)) return
VisitSeen ==
  /\ aop.op = "visiting"
  /\ aop.stack # <<>>
  /\ top(aop.stack).next = 0
  /\ seen(aop, top(aop.stack).node)
  /\ aop' = [ aop EXCEPT !.stack = pop(@) ]
  /\ UNCHANGED << nodes, aroot, lexvars, parservars, scrollvars >>

\* visited.add(currentNode) and the pre-order branch
VisitEnter ==
  /\ aop.op = "visiting"
  /\ aop.stack # <<>>
  /\ top(aop.stack).next = 0
  /\ ~seen(aop, top(aop.stack).node)
  /\ aop' = visitBefore([ aop EXCEPT !.visited = @ \cup { top(aop.stack).node },
                                     !.stack = advanced(@) ],
                        top(aop.stack).node, nodes[top(aop.stack).node].type,
                        aop.arg[1], aop.arg[2])
  /\ UNCHANGED << nodes, aroot, lexvars, parservars, scrollvars >>

\* visit(child) for the next child of currentNode.children
VisitChild ==
  /\ aop.op = "visiting"
  /\ aop.stack # <<>>
  /\ top(aop.stack).next \in 1..Len(nodes[top(aop.stack).node].children)
  /\ aop' = [ aop EXCEPT
                !.stack = Append(advanced(@),
                                 [ node |-> nodes[top(aop.stack).node].children[top(aop.stack).next],
                                   next |-> 0 ]) ]
  /\ UNCHANGED << nodes, aroot, lexvars, parservars, scrollvars >>

\* the children are done: the post-order branch, and visit returns
VisitLeave ==
  /\ aop.op = "visiting"
  /\ aop.stack # <<>>
  /\ top(aop.stack).next > Len(nodes[top(aop.stack).node].children)
  /\ aop' = visitAfter([ aop EXCEPT !.stack = pop(@) ],
                       top(aop.stack).node, nodes[top(aop.stack).node].type,
                       aop.arg[1], aop.arg[2])
  /\ UNCHANGED << nodes, aroot, lexvars, parservars, scrollvars >>

\* return results
TraverseReturn ==
  /\ aop.op = "visiting"
  /\ aop.stack = <<>>
  /\ aop' = [ aop EXCEPT !.op = "traversed" ]
  /\ UNCHANGED << nodes, aroot, lexvars, parservars, scrollvars >>

WalkNext ==
  \/ TraverseCall
  \/ VisitSeen
  \/ VisitEnter
  \/ VisitChild
  \/ VisitLeave
  \/ TraverseReturn

SpecWalk == WalkInit /\ [][WalkNext]_vars

\* a call that was made runs on: nothing else is scheduled in between
SpecWalkFair == SpecWalk /\ WF_vars(WalkNext)

(***************************************************************************)
(* The SyncScroller and the debounced function it makes in its             *)
(* constructor.  scroller holds the fields of both and log, the calls made *)
(* on the SyncScroller and the setScrollTop calls it made, in order.  The  *)
(* timer of debounce, once set, fires at any later step unless a new call  *)
(* of the debounced function clears it.                                    *)
(***************************************************************************)
\* what editor.getScrollInfo() and preview.getScrollInfo() answer
EditorInfo == [ height |-> 3, clientHeight |-> 1 ]

PreviewInfo == [ height |-> 5, clientHeight |-> 1 ]

\* Math.max(0, Math.min(1, scrollTop / (scrollHeight - clientHeight))), as
\* the fraction << numerator, denominator >>
calculateScrollPercentage(scrollTop, scrollHeight, clientHeight) ==
  IF scrollHeight <= clientHeight THEN << 0, 1 >>
  ELSE IF scrollTop <= 0 THEN << 0, 1 >>
  ELSE IF scrollTop >= scrollHeight - clientHeight THEN << 1, 1 >>
  ELSE << scrollTop, scrollHeight - clientHeight >>

\* Math.max(0, maxScroll * sourcePercentage); exact for the sizes above
syncScrollPosition(sourcePercentage, targetScrollHeight, targetClientHeight) ==
  Max(0, ((targetScrollHeight - targetClientHeight) * sourcePercentage[1])
           \div sourcePercentage[2])

\* one more call in the log
logged(s, op, arg) == [ s EXCEPT !.log = Append(@, [ op |-> op, arg |-> arg ]) ]

\* the function debounce returns, with leading = false: clearTimeout(timer),
\* lastArgs = args, inDebounce = true, timer = setTimeout(...)
debounced(s, args) ==
  [ s EXCEPT !.lastArgs = args, !.inDebounce = TRUE, !.timer = TRUE ]

\* destroy(): scrollTimeout is never set, so there is nothing it clears
destroyed(s) == [ s EXCEPT !.enabled = FALSE, !.isScrolling = FALSE ]

\* new SyncScroller({ editor, preview })
ScrollInit ==
  /\ scroller = [ NoScroller EXCEPT !.enabled = TRUE, !.debounceTime = 50 ]
  /\ LexIdle
  /\ ParseIdle
  /\ nodes = <<>>
  /\ AstIdle

\* syncScroller.syncFromEditor(scrollTop, scrollHeight, clientHeight);
\* preview.getScrollInfo() answers or throws
SyncFromEditor ==
  /\ Len(scroller.log) < MaxEvents
  /\ \E scrollTop \in 0..(EditorInfo.height - EditorInfo.clientHeight), throws \in BOOLEAN :
       scroller' =
         IF ~scroller.enabled \/ scroller.isScrolling \/ throws
         THEN logged(scroller, "syncFromEditor", scrollTop)
         ELSE debounced(logged(scroller, "syncFromEditor", scrollTop),
                        << syncScrollPosition(
                             calculateScrollPercentage(scrollTop, EditorInfo.height,
                                                       EditorInfo.clientHeight),
                             PreviewInfo.height, PreviewInfo.clientHeight) >>)
  /\ UNCHANGED << lexvars, parservars, treevars >>

\* syncScroller.syncFromPreview(...): the debounced call is commented out
SyncFromPreview ==
  /\ Len(scroller.log) < MaxEvents
  /\ \E scrollTop \in 0..(PreviewInfo.height - PreviewInfo.clientHeight) :
       scroller' = logged(scroller, "syncFromPreview", scrollTop)
  /\ UNCHANGED << lexvars, parservars, treevars >>

\* syncScroller.enable()
Enable ==
  /\ Len(scroller.log) < MaxEvents
  /\ scroller' = logged([ scroller EXCEPT !.enabled = TRUE ], "enable", 0)
  /\ UNCHANGED << lexvars, parservars, treevars >>

\* syncScroller.disable()
Disable ==
  /\ Len(scroller.log) < MaxEvents
  /\ scroller' = logged([ scroller EXCEPT !.enabled = FALSE ], "disable", 0)
  /\ UNCHANGED << lexvars, parservars, treevars >>

\* syncScroller.setDebounceTime(time): the debounced functions keep the
\* wait they were made with
SetDebounceTime ==
  /\ Len(scroller.log) < MaxEvents
  /\ \E time \in { 50, 100 } :
       scroller' = logged([ scroller EXCEPT !.debounceTime = time ], "setDebounceTime", time)
  /\ UNCHANGED << lexvars, parservars, treevars >>

\* syncScroller.destroy()
Destroy ==
  /\ Len(scroller.log) < MaxEvents
  /\ scroller' = logged(destroyed(scroller), "destroy", 0)
  /\ UNCHANGED << lexvars, parservars, treevars >>

\* the callback of setTimeout in debounce runs:
\* if (option.trailing && lastArgs) { func(lastArgs); lastArgs = null }
\* inDebounce = false, func being preview.setScrollTop(targetScrollTop)
TimerFires ==
  /\ scroller.timer
  /\ scroller' =
       IF scroller.lastArgs # <<>>
       THEN logged([ scroller EXCEPT !.timer = FALSE, !.inDebounce = FALSE,
                                     !.lastArgs = <<>> ],
                   "preview.setScrollTop", scroller.lastArgs[1])
       ELSE [ scroller EXCEPT !.timer = FALSE, !.inDebounce = FALSE ]
  /\ UNCHANGED << lexvars, parservars, treevars >>

ScrollNext ==
  \/ SyncFromEditor
  \/ SyncFromPreview
  \/ Enable
  \/ Disable
  \/ SetDebounceTime
  \/ Destroy
  \/ TimerFires

SpecScroll == ScrollInit /\ [][ScrollNext]_vars

(***************************************************************************)
(* Properties of the lexer.                                                *)
(***************************************************************************)
\* s with every CRLF and every lone CR replaced by LF, in one pass
RECURSIVE LFOnly(_, _)
LFOnly(s, i) ==
  IF i > Len(s) THEN <<>>
  ELSE IF s[i] = "\r" /\ i < Len(s) /\ s[i + 1] = "\n" THEN LFOnly(s, i + 1)
  ELSE IF s[i] = "\r" THEN <<"\n">> \o LFOnly(s, i + 1)
  ELSE <<s[i]>> \o LFOnly(s, i + 1)

\* the literals of the tokens that are not the end-of-stream token, concatenated
RECURSIVE ConcatLiterals(_, _)
ConcatLiterals(toks, i) ==
  IF i > Len(toks) THEN <<>>
  ELSE IF toks[i].type = "eof" THEN ConcatLiterals(toks, i + 1)
  ELSE toks[i].value \o ConcatLiterals(toks, i + 1)

\* where the literal of token i starts: the lengths of the literals before it
RECURSIVE StartOf(_, _)
StartOf(toks, i) ==
  IF i <= 1 THEN 0 ELSE StartOf(toks, i - 1) + Len(toks[i - 1].value)

\* 1 + the number of LF among the first off characters
LineAt(inp, off) == 1 + Cardinality({ j \in 1..off : inp[j] = "\n" })

\* 1 + the number of characters since the last LF among the first off characters
ColumnAt(inp, off) ==
  LET lfs == { j \in 1..off : inp[j] = "\n" }
      last == IF lfs = {} THEN 0 ELSE CHOOSE j \in lfs : \A k \in lfs : k <= j
  IN  off - last + 1

\* C1: when tokenize returns, the literals of the tokens other than the
\* end-of-stream token, concatenated in order, are the input with CRLF and lone
\* CR replaced by LF; while it runs they are the part of it consumed so far.
C1_Lossless ==
  /\ ConcatLiterals(tokens, 1) = SubSeq(LFOnly(raw, 1), 1, offset)
  /\ lexpc = "done" => ConcatLiterals(tokens, 1) = LFOnly(raw, 1)

C1_Witness ==
  /\ lexpc = "done"
  /\ Len(tokens) >= 3
  /\ \E i \in 1..Len(raw) : raw[i] = "\r"
  /\ Len(input) < Len(raw)

\* C2: every call of scanToken made by the tokenize loop advances the offset
\* by at least one character.
C2_ScanAdvances ==
  [][(lexpc = "scan" /\ lexpc' = "scan") => offset' > offset]_vars

\* C8: the result of tokenize holds exactly one end-of-stream token, it is the
\* last one, its literal is empty with length 0 and its offset is the length of
\* the newline-normalized input; for the empty input it is the only token.
C8_EndToken ==
  lexpc = "done" =>
    /\ Len(tokens) >= 1
    /\ \A i \in 1..Len(tokens) : (tokens[i].type = "eof") <=> (i = Len(tokens))
    /\ tokens[Len(tokens)].value = <<>>
    /\ tokens[Len(tokens)].length = 0
    /\ tokens[Len(tokens)].offset = Len(LFOnly(raw, 1))
    /\ (raw = <<>> => Len(tokens) = 1)

C8_Witness ==
  /\ lexpc = "done"
  /\ Len(tokens) >= 2
  /\ tokens[Len(tokens)].offset = MaxLen
  /\ tokens[Len(tokens)].line = 2

\* the position of token i is the position of the first character of its literal
StartPosition(i) ==
  LET s == StartOf(tokens, i)
  IN  /\ tokens[i].offset = s
      /\ tokens[i].line = LineAt(input, s)
      /\ tokens[i].column = ColumnAt(input, s)

\* C9 as stated: every token, newline tokens too, reports the position of the
\* first character of its literal.
C9_Original == \A i \in 1..Len(tokens) : StartPosition(i)

\* C9 as amended: every token other than a newline token reports the position
\* of the first character of its literal; a newline token reports the offset of
\* its LF, the line after that LF and column 1.
C9_Positions ==
  \A i \in 1..Len(tokens) :
    IF tokens[i].type = "newline"
    THEN /\ tokens[i].offset = StartOf(tokens, i)
         /\ tokens[i].line = LineAt(input, StartOf(tokens, i)) + 1
         /\ tokens[i].column = 1
    ELSE StartPosition(i)

C9_Witness ==
  /\ lexpc = "done"
  /\ Len(tokens) = 4
  /\ tokens[1].type = "text"
  /\ tokens[2].type = "newline"
  /\ tokens[2].line = 2 /\ tokens[2].column = 1 /\ tokens[2].offset = 1
  /\ tokens[3].line = 2 /\ tokens[3].column = 1 /\ tokens[3].offset = 2

(***************************************************************************)
(* Properties of the parser.                                               *)
(***************************************************************************)
TypesOf(toks) == [i \in 1..Len(toks) |-> toks[i].type]

\* the last node of the tree under n in document order
RECURSIVE LastLeaf(_, _)
LastLeaf(heap, n) ==
  IF Len(heap[n].children) = 0 THEN n
  ELSE LastLeaf(heap, heap[n].children[Len(heap[n].children)])

\* nodes that were built and are not part of the returned tree
Discarded(r) == (1..Len(r.heap)) \ Subtree(r.heap, r.root)

\* C3: parse returns a document node for every token sequence that ends in
\* the end-of-stream token, and consume never raises its ParseError.
C3_ParseTotal ==
  ppc = "done" =>
    /\ ~presult.raised
    /\ presult.returned
    /\ presult.root # 0
    /\ presult.heap[presult.root].type = "document"

C3_Witness ==
  /\ ppc = "done"
  /\ presult.returned
  /\ ~presult.raised
  /\ TypesOf(ptokens) = <<"heading", "italic", "eof">>

C5_ParentLinks ==
  (ppc = "done" /\ presult.returned) =>
    /\ presult.heap[presult.root].parent = 0
    /\ \A n \in Subtree(presult.heap, presult.root) :
         \A k \in 1..Len(presult.heap[n].children) :
           presult.heap[presult.heap[n].children[k]].parent = n

C5_Witness ==
  /\ ppc = "done"
  /\ presult.returned
  /\ Discarded(presult) # {}
  /\ \E n \in Subtree(presult.heap, presult.root) :
       /\ presult.heap[n].type = "bold"
       /\ Len(presult.heap[n].children) >= 2

\* the tree parse made of [bold-mark, end-of-stream]
IsBoldMarkOnly == ppc = "done" /\ TypesOf(ptokens) = <<"bold", "eof">>

ParagraphOfBoldMark == presult.heap[presult.heap[presult.root].children[1]]

\* C10 as stated: [bold-mark, end-of-stream] yields one paragraph holding
\* exactly one text node, '**', and the end-of-stream token makes no node.
C10_Original ==
  IsBoldMarkOnly =>
    /\ Len(presult.heap[presult.root].children) = 1
    /\ ParagraphOfBoldMark.type = "paragraph"
    /\ Len(ParagraphOfBoldMark.children) = 1
    /\ presult.heap[ParagraphOfBoldMark.children[1]].type = "text"
    /\ presult.heap[ParagraphOfBoldMark.children[1]].value = <<"*", "*">>

\* C10 as amended: [bold-mark, end-of-stream] yields one paragraph holding
\* two text nodes, '**' and then the empty text made of the end-of-stream
\* token, and no bold node; for every input the end-of-stream token makes a
\* text node with the empty value, the last node of the tree.
C10_BoldMarkOnly ==
  /\ IsBoldMarkOnly =>
       /\ presult.returned
       /\ Len(presult.heap[presult.root].children) = 1
       /\ ParagraphOfBoldMark.type = "paragraph"
       /\ Len(ParagraphOfBoldMark.children) = 2
       /\ \A k \in 1..2 : presult.heap[ParagraphOfBoldMark.children[k]].type = "text"
       /\ presult.heap[ParagraphOfBoldMark.children[1]].value = <<"*", "*">>
       /\ presult.heap[ParagraphOfBoldMark.children[2]].value = <<>>
       /\ \A n \in Subtree(presult.heap, presult.root) : presult.heap[n].type # "bold"
  /\ (ppc = "done" /\ presult.returned) =>
       LET last == presult.heap[LastLeaf(presult.heap, presult.root)]
       IN  /\ last.type = "text"
           /\ last.value = <<>>
           /\ last.position = tokenPosition(ptokens[Len(ptokens)])

C10_Witness ==
  /\ IsBoldMarkOnly
  /\ presult.returned
  /\ Len(ParagraphOfBoldMark.children) = 2

(***************************************************************************)
(* Properties of the structural edits.                                     *)
(***************************************************************************)
\* C6: after any sequence of factory constructions and structural edits,
\* every child listed by a node has that node as its parent.
C6_ChildrenPointBack ==
  \A n \in 1..Len(nodes) :
    \A k \in 1..Len(nodes[n].children) : nodes[nodes[n].children[k]].parent = n

\* C7: after any sequence of factory constructions and structural edits, no
\* node is listed by two nodes and no node is listed twice by one node.
C7_NoSharedChild ==
  \A n, m \in 1..Len(nodes) :
    \A i \in 1..Len(nodes[n].children), j \in 1..Len(nodes[m].children) :
      nodes[n].children[i] = nodes[m].children[j] => (n = m /\ i = j)

(***************************************************************************)
(* Properties of the pipeline from characters to the tree.                 *)
(***************************************************************************)
PipeDone == lexpc = "done" /\ ppc = "done" /\ presult.returned

\* the k-th block of the parsed document (k-th child of the root)
Block(k) == presult.heap[presult.heap[presult.root].children[k]]

BlockCount == Len(presult.heap[presult.root].children)

ChildOf(node, k) == presult.heap[node.children[k]]

\* input opens with exactly n '#' and then the characters of rest
OpensWithHashes(n, rest) ==
  /\ Len(input) >= n + Len(rest)
  /\ SubSeq(input, 1, n) = Repeat("#", n)
  /\ SubSeq(input, n + 1, n + Len(rest)) = rest

\* C11: a line opening with n '#' (1 <= n <= 6) and inline text parses to a
\* heading of level n, and a line opening with '>' to a quote.
C11_BlockMarkersDispatch ==
  PipeDone =>
    /\ \A n \in 1..MaxHeadingLevel :
         OpensWithHashes(n, << " ", "a" >>) =>
           /\ BlockCount >= 1
           /\ Block(1).type = "heading"
           /\ Block(1).level = n
    /\ (Len(input) >= 2 /\ input[1] = ">" /\ input[2] \in { "a", " " }) =>
         /\ BlockCount >= 1
         /\ Block(1).type = "quote"

\* the span kind each delimiter opens
SpanKind(d) ==
  CASE d = << "*", "*" >> -> "bold"
    [] d = << "*" >>      -> "italic"
    [] d = << Backtick >> -> "code"

\* a span node of kind k holding the text t: bold and italic hold it in one
\* text child, code in its value
HoldsText(node, k, t) ==
  /\ node.type = k
  /\ IF k = "code" THEN node.value = t
     ELSE /\ Len(node.children) = 1
          /\ ChildOf(node, 1).type = "text"
          /\ ChildOf(node, 1).value = t

\* C12: for each of '**', '*' and the backtick, delimiter + text + delimiter
\* on one line parses to a paragraph whose first child is the span node of
\* the delimiter's kind holding the text.
C12_SpansEndToEnd ==
  PipeDone =>
    \A d \in Delimiters :
      input = d \o << "a" >> \o d =>
        /\ BlockCount = 1
        /\ Block(1).type = "paragraph"
        /\ Len(Block(1).children) >= 1
        /\ HoldsText(ChildOf(Block(1), 1), SpanKind(d), << "a" >>)

NestedListInput ==
  << "1", ".", " ", "a", "\n", "2", ".", " ", "b", "\n", " ", " ", " ", "-", " ", "c" >>

\* the blocks of type list among the children of node
ListsIn(node) ==
  { k \in 1..Len(node.children) : ChildOf(node, k).type = "list" }

\* C13: "1. a\n2. b\n   - c" parses to one ordered list of two items whose
\* second item holds a nested unordered list of one item.
C13_NestedList ==
  (PipeDone /\ input = NestedListInput) =>
    /\ BlockCount = 1
    /\ Block(1).type = "list"
    /\ Block(1).ordered
    /\ Len(Block(1).children) = 2
    /\ LET second == ChildOf(Block(1), 2)
       IN  /\ second.type = "list_item"
           /\ \E k \in ListsIn(second) :
                /\ ~ChildOf(second, k).ordered
                /\ Len(ChildOf(second, k).children) = 1

\* C15: a fenced code block (fence with optional tag, interior lines, closing
\* fence) parses to exactly one code_block node whose language is the tag,
\* absent when there is none, and whose value is the interior lines joined
\* by newlines.
C15_FencedCodeBlock ==
  PipeDone =>
    \A tag \in { <<>>, << "j", "s" >> } :
      \A body \in { << "a" >>, << "a", "\n", "b" >> } :
        input = Fence \o tag \o << "\n" >> \o body \o << "\n" >> \o Fence =>
          /\ Cardinality({ n \in 1..Len(presult.heap) :
                             presult.heap[n].type = "code_block" }) = 1
          /\ BlockCount = 1
          /\ Block(1).type = "code_block"
          /\ Block(1).value = body
          /\ Block(1).hasLanguage = (tag # <<>>)
          /\ Block(1).language = tag

(***************************************************************************)
(* Properties of the link and image attempts.                              *)
(***************************************************************************)
\* the parser state with the cursor on the i-th token and no node built
StateAt(i) == [ParserState(<<>>) EXCEPT !.current = i - 1]

\* what parseInline makes of the attempt r that began on token i: the node
\* of the matched pattern, or the cursor back on token i and then the text
\* node of that token alone
AttemptOutcome(i, r, kind) ==
  \/ /\ r.node # 0
     /\ r.st.heap[r.node].type = kind
     /\ r.st.current > i
     /\ ptokens[r.st.current].type = "paren_close"
  \/ /\ r.node = 0
     /\ r.st.current = i - 1
     /\ LET t == orText(ptokens, r)
        IN  /\ t.st.current = i
            /\ t.st.heap[t.node].type = "text"
            /\ t.st.heap[t.node].value = ptokens[i].value

LinkPunctuation ==
  { "bracket_open", "bracket_close", "paren_open", "paren_close", "exclamation",
    "text", "eof" }

\* the values of the text children of node, laid end to end
RECURSIVE TextOf(_, _, _)
TextOf(heap, node, k) ==
  IF k > Len(heap[node].children) THEN <<>>
  ELSE heap[heap[node].children[k]].value \o TextOf(heap, node, k + 1)

RECURSIVE LiteralsOf(_, _)
LiteralsOf(toks, k) ==
  IF k > Len(toks) THEN <<>> ELSE toks[k].value \o LiteralsOf(toks, k + 1)

NodesOfType(r, types) ==
  { n \in Subtree(r.heap, r.root) : r.heap[n].type \in types }

\* C14: an attempt on '[' or '!' yields the link / image node of the whole
\* pattern, or leaves the cursor where it began, the token then becoming a
\* text node; '[' text ']' '(' url ')' gives a link with that url and one
\* text child; a tree without link and image nodes spells the tokens' text.
C14_LinkAttempts ==
  ppc = "done" =>
    /\ \A i \in 1..Len(ptokens) :
         /\ ptokens[i].type = "bracket_open" =>
              AttemptOutcome(i, tryParseLink(ptokens, StateAt(i)), "link")
         /\ ptokens[i].type = "exclamation" =>
              AttemptOutcome(i, tryParseImage(ptokens, StateAt(i)), "image")
    /\ TypesOf(ptokens) = << "bracket_open", "text", "bracket_close", "paren_open",
                              "text", "paren_close", "eof" >> =>
         LET link == ChildOf(Block(1), 1)
         IN  /\ link.type = "link"
             /\ link.url = ptokens[5].value
             /\ Len(link.children) = 1
             /\ ChildOf(link, 1).type = "text"
             /\ ChildOf(link, 1).value = ptokens[2].value
    /\ ( /\ presult.returned
         /\ \A k \in 1..Len(ptokens) : ptokens[k].type \in LinkPunctuation
         /\ NodesOfType(presult, { "link", "image" }) = {} ) =>
         /\ BlockCount = 1
         /\ \A k \in 1..Len(Block(1).children) : ChildOf(Block(1), k).type = "text"
         /\ TextOf(presult.heap, presult.heap[presult.root].children[1], 1)
              = LiteralsOf(ptokens, 1)

\* '[' text ']' '(' and no ')' has been parsed
C14_Witness ==
  /\ ppc = "done"
  /\ presult.returned
  /\ TypesOf(ptokens) = << "bracket_open", "text", "bracket_close", "paren_open", "eof" >>
  /\ NodesOfType(presult, { "link" }) = {}

(***************************************************************************)
(* Properties of task-list items.                                          *)
(***************************************************************************)
\* the list_item nodes of the tree paired with the token they were made of
\* (a list item carries the position of its token)
ItemsWithTokens ==
  { << n, k >> \in NodesOfType(presult, { "list_item" }) \X (1..Len(ptokens)) :
      /\ ptokens[k].type = "list_item"
      /\ ptokens[k].offset = presult.heap[n].position.offset }

Marked(value) ==
  includes(value, << "[", "x", "]" >>) \/ includes(value, << "[", "X", "]" >>)

Unmarked(value) == includes(value, << "[", " ", "]" >>)

\* C16 as stated: checked is true when the literal contains '[x]' or
\* '[X]', false when it contains '[ ]', absent when it contains none.
C16_Original ==
  (ppc = "done" /\ presult.returned) =>
    \A p \in ItemsWithTokens :
      LET checked == presult.heap[p[1]].checked
          value == ptokens[p[2]].value
      IN  /\ Marked(value) => checked = "true"
          /\ Unmarked(value) => checked = "false"
          /\ (~Marked(value) /\ ~Unmarked(value)) => checked = "undefined"

\* C16 as amended: checked is true when the literal contains '[x]' or
\* '[X]'; false when it contains '[ ]' and neither of those; absent when it
\* contains none of the three; every list-item token met by parseList makes
\* such a node.
C16_Checked ==
  (ppc = "done" /\ presult.returned) =>
    /\ \A p \in ItemsWithTokens :
         LET checked == presult.heap[p[1]].checked
             value == ptokens[p[2]].value
         IN  /\ Marked(value) => checked = "true"
             /\ (Unmarked(value) /\ ~Marked(value)) => checked = "false"
             /\ (~Marked(value) /\ ~Unmarked(value)) => checked = "undefined"
    /\ \A n \in NodesOfType(presult, { "list_item" }) :
         \E p \in ItemsWithTokens : p[1] = n

\* a checked, an unchecked and a plain item have been parsed
C16_Witness ==
  /\ ppc = "done"
  /\ presult.returned
  /\ \E p, q \in ItemsWithTokens :
       /\ presult.heap[p[1]].checked = "false"
       /\ presult.heap[q[1]].checked = "undefined"

(***************************************************************************)
(* Properties of clone, traverse and transform.                            *)
(***************************************************************************)
\* every child listed under a node of the tree under n names that node as
\* its parent
PointsBack(heap, n) ==
  \A m \in Subtree(heap, n) : \A k \in 1..Len(heap[m].children) :
    heap[heap[m].children[k]].parent = m

\* C17: the tree clone returns is made of node objects that did not exist
\* before the call, its root has no parent, each of its nodes has the copy
\* that lists it as parent, and no field of any node that existed before
\* the call has changed.
C17_CloneFresh ==
  aop.op = "clone" =>
    /\ Subtree(nodes, aop.out) \cap (1..Len(aop.before)) = {}
    /\ Cardinality(Subtree(nodes, aop.out)) = Cardinality(Subtree(aop.before, aop.node))
    /\ nodes[aop.out].parent = 0
    /\ PointsBack(nodes, aop.out)
    /\ \A i \in 1..Len(aop.before) : nodes[i] = aop.before[i]

\* a node with a parent, a child and a grandchild has been cloned
C17_Witness ==
  /\ aop.op = "clone"
  /\ aop.before[aop.node].parent # 0
  /\ \E k \in 1..Len(aop.before[aop.node].children) :
       Len(aop.before[aop.before[aop.node].children[k]].children) > 0
  /\ Len(nodes[aop.out].children) = Len(aop.before[aop.node].children)

\* where n stands in a sequence without repetition
PositionIn(seq, n) == CHOOSE i \in 1..Len(seq) : seq[i] = n

\* seq lists every node of the tree under root exactly once
ListsTree(heap, root, seq) ==
  /\ Len(seq) = Cardinality(Subtree(heap, root))
  /\ { seq[i] : i \in 1..Len(seq) } = Subtree(heap, root)

\* the trees under the children of a node follow one another in child order
SiblingsInOrder(heap, root, seq) ==
  \A p \in Subtree(heap, root) : \A j, k \in 1..Len(heap[p].children) :
    j < k =>
      \A d \in Subtree(heap, heap[p].children[j]) :
        \A e \in Subtree(heap, heap[p].children[k]) :
          PositionIn(seq, d) < PositionIn(seq, e)

PostOrder(heap, root, seq) ==
  /\ ListsTree(heap, root, seq)
  /\ SiblingsInOrder(heap, root, seq)
  /\ \A p \in Subtree(heap, root) : \A k \in 1..Len(heap[p].children) :
       PositionIn(seq, heap[p].children[k]) < PositionIn(seq, p)

PreOrder(heap, root, seq) ==
  /\ ListsTree(heap, root, seq)
  /\ SiblingsInOrder(heap, root, seq)
  /\ \A p \in Subtree(heap, root) : \A k \in 1..Len(heap[p].children) :
       PositionIn(seq, p) < PositionIn(seq, heap[p].children[k])

\* the visited nodes for which the visitor gave a value, in visiting order
RECURSIVE Answered(_, _, _)
Answered(heap, seq, visitor) ==
  IF seq = <<>> THEN <<>>
  ELSE (IF visitNode(heap[Head(seq)].type, visitor) = "undefined" THEN <<>>
        ELSE << Head(seq) >>) \o Answered(heap, Tail(seq), visitor)

C19_OneCallback ==
  aop.op = "traverse" =>
    \A i \in 1..Len(aop.visits) :
      LET fired == { k \in 1..Len(aop.calls) : aop.calls[k].node = aop.visits[i] }
          type == nodes[aop.visits[i]].type
      IN  /\ Cardinality(fired) <= 1
          /\ \A k \in fired :
               aop.calls[k].callback =
                 IF type \in aop.arg[1].specific THEN "specific" ELSE "visitNode"

\* the children a node had before the call that fn does not answer null for
RECURSIVE Kept(_, _, _)
Kept(heap, children, fn) ==
  IF children = <<>> THEN <<>>
  ELSE (IF heap[Head(children)].type \in fn.drop THEN <<>> ELSE << Head(children) >>)
         \o Kept(heap, Tail(children), fn)

\* the children of every node of the returned tree are its former children
\* that fn kept, each as it was or replaced by the text node fn made for it
ChildrenRebuilt ==
  (aop.op = "transform" /\ aop.out # 0) =>
    \A m \in Subtree(nodes, aop.out) :
      m <= Len(aop.before) =>
        LET kept == Kept(aop.before, aop.before[m].children, aop.arg[1])
        IN  /\ Len(nodes[m].children) = Len(kept)
            /\ \A k \in 1..Len(kept) :
                 IF aop.before[kept[k]].type \in aop.arg[1].fresh
                 THEN /\ nodes[m].children[k] > Len(aop.before)
                      /\ nodes[nodes[m].children[k]].type = "text"
                      /\ nodes[nodes[m].children[k]].position = aop.before[kept[k]].position
                 ELSE nodes[m].children[k] = kept[k]

\* C20: in the tree transform returns, a node's children are the results of
\* transforming its former children that are not absent, in their order,
\* and every child names the node that lists it as its parent.
C20_TransformWellFormed ==
  (aop.op = "transform" /\ aop.out # 0) =>
    /\ ChildrenRebuilt
    /\ PointsBack(nodes, aop.out)

(***************************************************************************)
(* Properties of inline runs in the tree parsed from a text.               *)
(***************************************************************************)
\* C21: in the tree parse returns, no link node has a link or an image
\* among the nodes under it.
C21_NoNestedLink ==
  PipeDone =>
    \A n \in NodesOfType(presult, { "link" }) :
      \A d \in Subtree(presult.heap, n) \ { n } :
        presult.heap[d].type \notin { "link", "image" }

InlineKinds == { "text", "bold", "italic", "code", "link", "image", "newline" }

BlockStartKinds == { "heading", "code_block", "quote", "list_item", "horizontal_rule" }

\* C22: no inline node of the parsed tree is built from a heading,
\* code-block, quote, list-item or horizontal-rule token (an inline node
\* built from a token carries that token's position).
C22_InlineStopsAtBlock ==
  PipeDone =>
    \A n \in NodesOfType(presult, InlineKinds) :
      \A k \in 1..Len(ptokens) :
        ptokens[k].type \in BlockStartKinds =>
          presult.heap[n].position # tokenPosition(ptokens[k])

(***************************************************************************)
(* Properties of the traversal options.                                    *)
(***************************************************************************)
\* C23: with includeSelf = false and no filter, the visitor is applied to
\* every node under the root and not to the root, whatever depthFirst is.
C23_IncludeSelfRootOnly ==
  (aop.op = "traverse" /\ ~aop.arg[2].includeSelf /\ aop.arg[2].filter = <<>>) =>
    { aop.visits[i] : i \in 1..Len(aop.visits) } = Subtree(nodes, aop.node) \ { aop.node }

(***************************************************************************)
(* Properties of traverse over node graphs.                                *)
(***************************************************************************)
\* the nodes reached from n through children
RECURSIVE ReachFrom(_, _, _)
ReachFrom(heap, frontier, found) ==
  IF frontier \subseteq found THEN found
  ELSE ReachFrom(heap,
                 UNION { { heap[m].children[k] : k \in 1..Len(heap[m].children) } :
                           m \in frontier \ found },
                 found \cup frontier)

\* no node occurs twice among the nodes the visitor was applied to
VisitedOnce ==
  \A i, j \in 1..Len(aop.visits) : aop.visits[i] = aop.visits[j] => i = j

\* C24: on every node graph, also one with a cycle or with a node listed
\* under two parents, traverse returns, and the visitor is applied at most
\* once to each node (and, at the return, to each node reached through
\* children).
C24_TraverseTerminates ==
  /\ [](aop.op \in { "visiting", "traversed" } => VisitedOnce)
  /\ [](aop.op = "traversed" =>
          { aop.visits[i] : i \in 1..Len(aop.visits) } = ReachFrom(nodes, { aop.node }, {}))
  /\ <>(aop.op = "traversed")

\* traverse has returned on a graph in which node 1 is listed under itself
\* and under node 2, and node 2 under node 1
C24_Witness ==
  /\ aop.op = "traversed"
  /\ \E k \in 1..Len(nodes[1].children) : nodes[1].children[k] = 1
  /\ \E k \in 1..Len(nodes[1].children) : nodes[1].children[k] = 2
  /\ \E k \in 1..Len(nodes[2].children) : nodes[2].children[k] = 1
  /\ Len(aop.visits) = 2

(***************************************************************************)
(* Properties of the character classes of the lexer.                       *)
(***************************************************************************)
\* the characters scanToken has a rule of its own for
DedicatedChars ==
  { "#", "*", Backtick, "[", "]", "(", ")", "!", ">", "-", ".", "\n", "\t", " " } \cup Digits

\* input[a + 1 .. b] is a run of digits with no digit before or after it
MaximalDigitRun(a, b) ==
  /\ a < b
  /\ \A i \in (a + 1)..b : isDigit(input[i])
  /\ a > 0 => ~isDigit(input[a])
  /\ b < Len(input) => ~isDigit(input[b + 1])

\* C25: every maximal run of digits of the input is one digit token, and no
\* text token holds a digit or another character that has a scan rule of
\* its own.
C25_ClassesExclusive ==
  lexpc = "done" =>
    /\ \A a, b \in 0..Len(input) :
         MaximalDigitRun(a, b) =>
           \E k \in 1..Len(tokens) :
             /\ tokens[k].type = "digit"
             /\ tokens[k].offset = a
             /\ tokens[k].length = b - a
    /\ \A k \in 1..Len(tokens) :
         tokens[k].type = "text" =>
           \A i \in 1..Len(tokens[k].value) : tokens[k].value[i] \notin DedicatedChars

(***************************************************************************)
(* Properties of lists and quotes in the parsed tree.                      *)
(***************************************************************************)
\* C26: every list node, nested ones included, is ordered exactly when the
\* literal of the token of its own first item starts with digits and a dot.
C26_OrderedFromOwnMarker ==
  (ppc = "done" /\ presult.returned) =>
    \A l \in NodesOfType(presult, { "list" }) :
      \A p \in ItemsWithTokens :
        (Len(presult.heap[l].children) > 0 /\ p[1] = presult.heap[l].children[1]) =>
          presult.heap[l].ordered = matchOrderedMarker(ptokens[p[2]].value)

(***************************************************************************)
(* Properties of the parent back-references after structural edits.        *)
(***************************************************************************)
\* the walk current = current.parent from n comes to a node without parent
\* within steps moves: getDepth and getPath return
RECURSIVE ParentWalkEnds(_, _, _)
ParentWalkEnds(heap, n, steps) ==
  IF n = 0 THEN TRUE
  ELSE IF steps = 0 THEN FALSE
  ELSE ParentWalkEnds(heap, heap[n].parent, steps - 1)

\* C27: after any sequence of insertNode, removeNode, replaceNode and
\* moveNode calls on factory-built nodes, the parent back-references hold no
\* cycle: from every node the walk along parent ends.
C27_ParentsAcyclic ==
  \A n \in 1..Len(nodes) : ParentWalkEnds(nodes, n, Len(nodes))

(***************************************************************************)
(* Properties of repeated tokenize() calls.                                *)
(***************************************************************************)
\* C28: a second tokenize() on the same lexer returns tokens equal, in
\* kind, literal and position, to those of the first.
C28_TokenizeRepeatable ==
  \A k \in 2..Len(returned) : returned[k] = returned[1]

\* C29: a quote takes every block parsed from the tokens after its marker:
\* each quote node is the last child of its parent, every node built from a
\* later token lies under it, and parseQuote, begun on any quote token,
\* returns with the cursor at the end of the tokens.
C29_QuoteRunsToEnd ==
  (ppc = "done" /\ presult.returned) =>
    /\ \A q \in NodesOfType(presult, { "quote" }) :
         /\ presult.heap[q].parent # 0
         /\ presult.heap[presult.heap[q].parent].children[
              Len(presult.heap[presult.heap[q].parent].children)] = q
         /\ \A n \in Subtree(presult.heap, presult.root) :
              presult.heap[n].position.offset > presult.heap[q].position.offset
                => n \in Subtree(presult.heap, q)
    /\ \A i \in 1..Len(ptokens) :
         ptokens[i].type = "quote" =>
           /\ ~Halted(parseQuote(ptokens, StateAt(i)).st)
           /\ parseQuote(ptokens, StateAt(i)).st.current = Len(ptokens)

\* a quote whose marker is not the first token holds two blocks
C29_Witness ==
  /\ ppc = "done"
  /\ presult.returned
  /\ \E q \in NodesOfType(presult, { "quote" }) :
       /\ Len(presult.heap[q].children) >= 2
       /\ presult.heap[q].position.offset > 0

(***************************************************************************)
(* Properties of the SyncScroller.                                         *)
(***************************************************************************)
\* C30: after destroy() or disable() has returned, and until enable() is
\* called, the SyncScroller calls setScrollTop on neither scroller.
C30_NoScrollAfterStop ==
  \A i, j \in 1..Len(scroller.log) :
    ( /\ i < j
      /\ scroller.log[i].op \in { "destroy", "disable" }
      /\ scroller.log[j].op \in { "preview.setScrollTop", "editor.setScrollTop" } )
    => \E k \in (i + 1)..(j - 1) : scroller.log[k].op = "enable"

====
